---------------------------- MODULE Spec2Model ----------------------------
(***************************************************************************)
(* Model of the schema-driven XML-to-table engine of ht_chpp:              *)
(*   api.py                  parse_element_value, parse_attribute_value,   *)
(*                           parse_nested_structure                        *)
(*   utils/xml_parser.py     safe_cast, parse_element                      *)
(*   processors/generic.py   _extract_data_from_path, _flatten_record, ... *)
(*   utils/types.py          extract_field_types, create_table_schema      *)
(*                                                                         *)
(* Python values are tagged records (IntV, FloatV, BoolV, StrV, ListV,     *)
(* DictV, None); a raised exception is the value Raise(exc). A text is a   *)
(* sequence of one-character strings, so that int(), float(), lower() and  *)
(* replace() are computed from the characters. A dict is the sequence of   *)
(* its items in insertion order. A name (a tag, a key, a field name, a     *)
(* path) is a sequence of tokens: '@', '.', or a run of other characters.  *)
(***************************************************************************)
EXTENDS Integers, Sequences, FiniteSets, TLC

VARIABLES
    pc,          \* position of the run
    xml,         \* the root element handed to the parser
    fields,      \* the main field definitions of the api schema
    parsed,      \* what the parser returned (a value, or Raise)
    job,         \* the projection input: nested mapping, api schema, table spec, type table
    out          \* the projection output

vars == <<pc, xml, fields, parsed, job, out>>

\* Most repeated sibling elements of one name in a generated document.
MaxRep == 3
\* Most repeated records in a generated nested mapping.
MaxRows == 2
\* Most records in a list nested inside a record.
MaxKids == 2
\* Most projection runs over one nested mapping.
MaxRuns == 2
\* Most versions configured for one endpoint.
MaxVersions == 2

(***************************************************************************)
(* Python values                                                           *)
(***************************************************************************)
None == [k |-> "none"]
IntV(n) == [k |-> "int", n |-> n]
\* the float m / 10^e, with m not a multiple of 10 unless e = 0
FloatV(m, e) == [k |-> "float", m |-> m, e |-> e]
BoolV(b) == [k |-> "bool", b |-> b]
StrV(s) == [k |-> "str", s |-> s]
ListV(xs) == [k |-> "list", xs |-> xs]
DictV(items) == [k |-> "dict", items |-> items]
Raise(exc) == [k |-> "raise", exc |-> exc]

IsRaise(v) == v.k = "raise"
IsDict(v) == v.k = "dict"
IsList(v) == v.k = "list"

\* the names "base" and "@base"
Name(base) == <<base>>
AtName(base) == <<"@", base>>
\* field_name.startswith('@')
StartsWithAt(name) == Len(name) > 0 /\ name[1] = "@"
\* field_name.lstrip('@')
RECURSIVE LStripAt(_)
LStripAt(name) == IF StartsWithAt(name) THEN LStripAt(Tail(name)) ELSE name

SeqsUpTo(S, n) == UNION {[1..m -> S] : m \in 0..n}

\* key in d  (d a DictV)
DictHas(d, key) == \E i \in 1..Len(d.items) : d.items[i].key = key
\* d[key] for a key of d
DictGet(d, key) == d.items[CHOOSE i \in 1..Len(d.items) : d.items[i].key = key].val
\* d[key] = val: an existing key keeps its position, a new key is appended
DictSet(d, key, val) ==
    IF DictHas(d, key)
    THEN DictV([i \in 1..Len(d.items) |->
                  IF d.items[i].key = key THEN [key |-> key, val |-> val] ELSE d.items[i]])
    ELSE DictV(Append(d.items, [key |-> key, val |-> val]))
DictKeys(d) == [i \in 1..Len(d.items) |-> d.items[i].key]
\* Python's == on two dicts: the same keys with the same values, in any order
DictEq(a, b) ==
    /\ Len(a.items) = Len(b.items)
    /\ \A i \in 1..Len(a.items) :
          DictHas(b, a.items[i].key) /\ DictGet(b, a.items[i].key) = a.items[i].val

\* the first raised exception among the values xs, else the list of them
ListOrRaise(xs) ==
    IF \E i \in 1..Len(xs) : IsRaise(xs[i])
    THEN xs[CHOOSE i \in 1..Len(xs) :
               IsRaise(xs[i]) /\ \A j \in 1..(i - 1) : ~IsRaise(xs[j])]
    ELSE ListV(xs)

(***************************************************************************)
(* Texts and the conversions of them                                       *)
(***************************************************************************)
Digits == {"0", "1", "2", "3", "4", "5", "6", "7", "8", "9"}
DigitVal(c) ==
    CASE c = "0" -> 0 [] c = "1" -> 1 [] c = "2" -> 2 [] c = "3" -> 3 [] c = "4" -> 4
      [] c = "5" -> 5 [] c = "6" -> 6 [] c = "7" -> 7 [] c = "8" -> 8 [] c = "9" -> 9

IsDigits(s) == Len(s) > 0 /\ \A i \in 1..Len(s) : s[i] \in Digits

RECURSIVE DigitsVal(_)
DigitsVal(s) ==
    IF s = <<>> THEN 0
    ELSE 10 * DigitsVal(SubSeq(s, 1, Len(s) - 1)) + DigitVal(s[Len(s)])

RECURSIVE Pow10(_)
Pow10(n) == IF n = 0 THEN 1 ELSE 10 * Pow10(n - 1)

HasSign(s) == Len(s) > 0 /\ s[1] \in {"+", "-"}
Unsigned(s) == IF HasSign(s) THEN Tail(s) ELSE s
SignOf(s) == IF Len(s) > 0 /\ s[1] = "-" THEN -1 ELSE 1

\* int(text) on a text of digits, signs and other characters (no blanks, no '_')
PyInt(s) ==
    IF IsDigits(Unsigned(s)) THEN IntV(SignOf(s) * DigitsVal(Unsigned(s)))
    ELSE Raise("ValueError")

\* (a text left as it is)
ReplaceNothing(s) == s
\* str.replace(',', '.')
ReplaceComma(s) == [i \in 1..Len(s) |-> IF s[i] = "," THEN "." ELSE s[i]]

RECURSIVE NormFloat(_, _)
NormFloat(m, e) ==
    IF e > 0 /\ m % 10 = 0 THEN NormFloat(m \div 10, e - 1) ELSE FloatV(m, e)

\* float(text) on a text without exponent, inf, nan, blanks or '_':
\* [sign] digits [ '.' [digits] ]  or  [sign] '.' digits
PyFloat(s) ==
    LET u == Unsigned(s)
        dots == {i \in 1..Len(u) : u[i] = "."}
    IN  IF dots = {}
        THEN IF IsDigits(u) THEN FloatV(SignOf(s) * DigitsVal(u), 0) ELSE Raise("ValueError")
        ELSE IF Cardinality(dots) > 1 THEN Raise("ValueError")
        ELSE LET d == CHOOSE i \in dots : TRUE
                 ip == SubSeq(u, 1, d - 1)
                 fp == SubSeq(u, d + 1, Len(u))
                 ok == /\ \A i \in 1..Len(ip) : ip[i] \in Digits
                       /\ \A i \in 1..Len(fp) : fp[i] \in Digits
                       /\ Len(ip) + Len(fp) > 0
             IN  IF ok
                 THEN NormFloat(SignOf(s) * (DigitsVal(ip) * Pow10(Len(fp)) + DigitsVal(fp)),
                                Len(fp))
                 ELSE Raise("ValueError")

LowerChar(c) ==
    CASE c = "T" -> "t" [] c = "R" -> "r" [] c = "U" -> "u" [] c = "E" -> "e"
      [] c = "X" -> "x" [] OTHER -> c
\* str.lower()
Lower(s) == [i \in 1..Len(s) |-> LowerChar(s[i])]

TrueText == <<"t", "r", "u", "e">>

\* api.safe_float on a str
safe_float(s) == PyFloat(ReplaceComma(s))

\* the default values at the end of parse_element_value and parse_attribute_value
DefaultOf(field_type) ==
    CASE field_type = "int" -> IntV(0)
      [] field_type = "float" -> FloatV(0, 0)
      [] field_type = "bool" -> BoolV(FALSE)
      [] field_type = "list" -> ListV(<<>>)
      [] OTHER -> StrV(<<>>)

\* the conversion of a text by type tag, shared by both functions of api.py
ConvertText(s, field_type) ==
    CASE field_type = "int" -> PyInt(s)
      [] field_type = "float" -> safe_float(s)
      [] field_type = "str" -> StrV(s)
      [] field_type = "bool" -> BoolV(Lower(s) = TrueText)
      [] OTHER -> StrV(s)

(***************************************************************************)
(* XML elements (xml.etree.ElementTree)                                    *)
(***************************************************************************)
\* attrs: a function from attribute names to texts; text <<>> is "no text"
El(tag, attrs, text, kids) == [tag |-> Name(tag), attrs |-> attrs, text |-> text, kids |-> kids]
NoAttrs == [a \in {} |-> <<>>]
Leaf(tag, text) == El(tag, NoAttrs, text, <<>>)

\* element.findall(name): the direct children with that tag, in document order
findall(element, name) == SelectSeq(element.kids, LAMBDA c : c.tag = name)
\* element.get(name)
get(element, name) ==
    IF name \in DOMAIN element.attrs THEN StrV(element.attrs[name]) ELSE None

\* api.parse_element_value, for an element that exists
parse_element_value(element, field_type) ==
    IF element.text # <<>> THEN ConvertText(element.text, field_type)
    ELSE DefaultOf(field_type)

\* api.parse_attribute_value
parse_attribute_value(element, attr_name, attr_type) ==
    LET attr_value == get(element, attr_name)
    IN  IF attr_value # None THEN ConvertText(attr_value.s, attr_type)
        ELSE DefaultOf(attr_type)

\* the defaults parse_nested_structure itself stores for a simple field (no 'list' case)
MissingDefaultNoBool(field_type) ==
    CASE field_type = "int" -> IntV(0)
      [] field_type = "float" -> FloatV(0, 0)
      [] OTHER -> StrV(<<>>)
MissingDefault(field_type) ==
    CASE field_type = "int" -> IntV(0)
      [] field_type = "float" -> FloatV(0, 0)
      [] field_type = "bool" -> BoolV(FALSE)
      [] field_type = "str" -> StrV(<<>>)
      [] OTHER -> StrV(<<>>)

(***************************************************************************)
(* Schema definitions                                                      *)
(*   a descriptor {field_name: field_config} is [name, cfg];               *)
(*   field_config is a type tag, TypeCfg(t), or a dict, NestedCfg /        *)
(*   EmptyCfg, whose items are [type, defs]; defs is a ListV of            *)
(*   descriptors, or None where the YAML leaves it empty.                  *)
(***************************************************************************)
TypeCfg(t) == [k |-> "type", t |-> t]
NestedCfg(type, defs) == [k |-> "dict", items |-> <<[type |-> type, defs |-> defs]>>]
EmptyCfg == [k |-> "dict", items |-> <<>>]
Desc(name, cfg) == [name |-> name, cfg |-> cfg]
IsNestedCfg(cfg) == cfg.k = "dict"

(***************************************************************************)
(* api.parse_nested_structure                                              *)
(***************************************************************************)
RECURSIVE parse_nested_structure(_, _)

\* the value the try block computes for a nested descriptor, or the exception it raises
ApiNestedNoWrap(element, d) ==
    IF d.cfg.items = <<>> THEN Raise("IndexError")
    ELSE LET nested_object_type == d.cfg.items[1].type
             nested_object_definitions == d.cfg.items[1].defs
             direct_elements == findall(element, d.name)
         IN  IF Len(direct_elements) > 1
             THEN ListOrRaise([i \in 1..Len(direct_elements) |->
                     parse_nested_structure(direct_elements[i], nested_object_definitions)])
             ELSE IF Len(direct_elements) = 1
             THEN parse_nested_structure(direct_elements[1], nested_object_definitions)
             ELSE ListV(<<>>)
ApiNested(element, d) ==
    IF d.cfg.items = <<>> THEN Raise("IndexError")
    ELSE LET nested_object_type == d.cfg.items[1].type
             nested_object_definitions == d.cfg.items[1].defs
             direct_elements == findall(element, d.name)
         IN  IF Len(direct_elements) > 1
             THEN ListOrRaise([i \in 1..Len(direct_elements) |->
                     parse_nested_structure(direct_elements[i], nested_object_definitions)])
             ELSE IF Len(direct_elements) = 1
             THEN LET nested_element == direct_elements[1]
                      \* element.findall(f'{field_name}/{nested_object_type}')
                      inner == findall(nested_element, Name(nested_object_type))
                  IN  IF inner # <<>>
                      THEN ListOrRaise([i \in 1..Len(inner) |->
                              parse_nested_structure(inner[i], nested_object_definitions)])
                      ELSE ListOrRaise(<<parse_nested_structure(nested_element,
                                                                nested_object_definitions)>>)
             ELSE ListV(<<>>)

\* the item [key, val] the try block stores for a simple field; val is the exception
\* when it raises
ApiSimple(element, d) ==
    LET field_type == d.cfg.t
    IN  IF StartsWithAt(d.name)
        THEN LET attr_name == Tail(d.name)    \* field_name[1:]
             IN  [key |-> attr_name,
                  val |-> parse_attribute_value(element, attr_name, field_type)]
        ELSE LET field_elements == findall(element, d.name)
             IN  [key |-> d.name,
                  val |-> IF Len(field_elements) > 1
                          THEN ListOrRaise([i \in 1..Len(field_elements) |->
                                  parse_element_value(field_elements[i], field_type)])
                          ELSE IF Len(field_elements) = 1
                          THEN parse_element_value(field_elements[1], field_type)
                          ELSE MissingDefault(field_type)]

\* the except branch: the default stored under field_name
ApiExceptNone(d) ==
    IF IsNestedCfg(d.cfg) THEN None ELSE MissingDefault(d.cfg.t)
ApiExcept(d) ==
    IF IsNestedCfg(d.cfg) THEN ListV(<<>>) ELSE MissingDefault(d.cfg.t)

\* one pass of the loop body: parsed_obj after descriptor d
ApiField(parsed_obj, element, d) ==
    LET r == IF IsNestedCfg(d.cfg)
             THEN [key |-> d.name, val |-> ApiNested(element, d)]
             ELSE ApiSimple(element, d)
    IN  IF IsRaise(r.val) THEN DictSet(parsed_obj, d.name, ApiExcept(d))
        ELSE DictSet(parsed_obj, r.key, r.val)

RECURSIVE ApiLoop(_, _, _, _)
ApiLoop(parsed_obj, element, defs, i) ==
    IF i > Len(defs) THEN parsed_obj
    ELSE ApiLoop(ApiField(parsed_obj, element, defs[i]), element, defs, i + 1)

\* iterating field_definitions = None raises TypeError, outside any try of this call
parse_nested_structure(element, field_definitions) ==
    IF field_definitions = None THEN Raise("TypeError")
    ELSE ApiLoop(DictV(<<>>), element, field_definitions.xs, 1)

(***************************************************************************)
(* utils.xml_parser: safe_cast, parse_element                              *)
(***************************************************************************)
\* value is None or a StrV
safe_cast(value, target_type) ==
    IF value = None \/ value.s = <<>> THEN None
    ELSE LET r == CASE target_type = "int" -> PyInt(value.s)
                    [] target_type = "float" -> PyFloat(ReplaceComma(value.s))
                    [] target_type = "bool" -> BoolV(Lower(value.s) = TrueText)
                    [] target_type = "str" -> value
                    [] OTHER -> value
         IN  IF IsRaise(r) THEN None ELSE r

RECURSIVE parse_element(_, _)

XpNested(element, d) ==
    IF d.cfg.items = <<>> THEN Raise("IndexError")
    ELSE LET nested_type == d.cfg.items[1].type
             nested_schema == d.cfg.items[1].defs
             child_elements == findall(element, d.name)
         IN  IF Len(child_elements) > 1
             THEN ListOrRaise([i \in 1..Len(child_elements) |->
                     parse_element(child_elements[i], nested_schema)])
             ELSE IF Len(child_elements) = 1
             THEN LET child == child_elements[1]
                      nested_elements == findall(child, Name(nested_type))
                  IN  IF nested_elements # <<>>
                      THEN ListOrRaise([i \in 1..Len(nested_elements) |->
                              parse_element(nested_elements[i], nested_schema)])
                      ELSE ListOrRaise(<<parse_element(child, nested_schema)>>)
             ELSE ListV(<<>>)

XpSimple(element, d) ==
    LET field_type == d.cfg.t
        value == IF StartsWithAt(d.name)
                 THEN get(element, Tail(d.name))
                 ELSE LET found == findall(element, d.name)   \* element.find
                      IN  IF found # <<>> /\ found[1].text # <<>>
                          THEN StrV(found[1].text) ELSE None
    IN  [key |-> LStripAt(d.name), val |-> safe_cast(value, field_type)]

\* one pass of the loop body; an exception leaves the function
XpField(result, element, d) ==
    IF IsRaise(result) THEN result
    ELSE LET r == IF IsNestedCfg(d.cfg)
                  THEN [key |-> d.name, val |-> XpNested(element, d)]
                  ELSE XpSimple(element, d)
         IN  IF IsRaise(r.val) THEN r.val ELSE DictSet(result, r.key, r.val)

RECURSIVE XpLoop(_, _, _, _)
XpLoop(result, element, defs, i) ==
    IF i > Len(defs) THEN result
    ELSE XpLoop(XpField(result, element, defs[i]), element, defs, i + 1)

parse_element(element, schema) ==
    IF schema = None THEN Raise("TypeError")
    ELSE XpLoop(DictV(<<>>), element, schema.xs, 1)

(***************************************************************************)
(* processors.generic.GenericProcessor: extraction                         *)
(***************************************************************************)
\* dict.get(key, default)
PyGet(d, key, default) == IF DictHas(d, key) THEN DictGet(d, key) ELSE default

\* source_path.split('.')
RECURSIVE Split(_)
Split(s) ==
    IF \E i \in 1..Len(s) : s[i] = "."
    THEN LET i == CHOOSE i \in 1..Len(s) : s[i] = "." /\ \A j \in 1..(i - 1) : s[j] # "."
         IN  <<SubSeq(s, 1, i - 1)>> \o Split(SubSeq(s, i + 1, Len(s)))
    ELSE <<s>>

\* for part in path_parts[:-1]: parent_data = parent_data.get(part, [])
\* (only a dict has .get)
RECURSIVE Navigate(_, _)
Navigate(parent_data, parts) ==
    IF parts = <<>> \/ IsRaise(parent_data) THEN parent_data
    ELSE IF IsDict(parent_data)
    THEN Navigate(PyGet(parent_data, Head(parts), ListV(<<>>)), Tail(parts))
    ELSE Raise("AttributeError")

\* the dict with the value at the key path `parts` replaced
RECURSIVE SetAtPath(_, _, _)
SetAtPath(d, parts, v) ==
    IF Len(parts) = 1 THEN DictSet(d, parts[1], v)
    ELSE DictSet(d, parts[1], SetAtPath(DictGet(d, parts[1]), Tail(parts), v))

\* the loop over a list nested_data: each record gets the parent's foreign key, in
\* place, and is emitted. [rows, kids, err]: the rows so far, the list's records as
\* they are now, and the exception if one was raised.
\* (a loop that emits the records as they are)
RECURSIVE ChildLoopNoKey(_, _, _, _, _)
ChildLoopNoKey(rows, kids, parent_record, foreign_key, j) ==
    IF j > Len(kids) THEN [rows |-> rows, kids |-> kids, err |-> None]
    ELSE ChildLoopNoKey(Append(rows, kids[j]), kids, parent_record, foreign_key, j + 1)
RECURSIVE ChildLoop(_, _, _, _, _)
ChildLoop(rows, kids, parent_record, foreign_key, j) ==
    IF j > Len(kids) THEN [rows |-> rows, kids |-> kids, err |-> None]
    ELSE IF foreign_key # <<>> /\ DictHas(parent_record, foreign_key)
    THEN IF IsDict(kids[j])
         THEN LET nested_record == DictSet(kids[j], foreign_key,
                                           DictGet(parent_record, foreign_key))
              IN  ChildLoop(Append(rows, nested_record),
                            [kids EXCEPT ![j] = nested_record],
                            parent_record, foreign_key, j + 1)
         ELSE [rows |-> rows, kids |-> kids, err |-> Raise("TypeError")]
    ELSE ChildLoop(Append(rows, kids[j]), kids, parent_record, foreign_key, j + 1)

\* (a loop over the parent records that emits from list values only)
RECURSIVE ParentLoopListsOnly(_, _, _, _, _)
ParentLoopListsOnly(rows, parents, nested_field, foreign_key, i) ==
    IF i > Len(parents) THEN [rows |-> rows, parents |-> parents, err |-> None]
    ELSE LET parent_record == parents[i]
             nested_data == IF IsDict(parent_record)
                            THEN PyGet(parent_record, nested_field, None) ELSE None
         IN  IF ~IsDict(parent_record)
             THEN [rows |-> rows, parents |-> parents, err |-> Raise("AttributeError")]
             ELSE IF IsList(nested_data)
             THEN LET c == ChildLoop(rows, nested_data.xs, parent_record, foreign_key, 1)
                      ps == [parents EXCEPT ![i] =
                                DictSet(parent_record, nested_field, ListV(c.kids))]
                  IN  IF c.err # None
                      THEN [rows |-> c.rows, parents |-> ps, err |-> c.err]
                      ELSE ParentLoopListsOnly(c.rows, ps, nested_field, foreign_key, i + 1)
             ELSE ParentLoopListsOnly(rows, parents, nested_field, foreign_key, i + 1)
\* the loop over the parent records. [rows, parents, err]
RECURSIVE ParentLoop(_, _, _, _, _)
ParentLoop(rows, parents, nested_field, foreign_key, i) ==
    IF i > Len(parents) THEN [rows |-> rows, parents |-> parents, err |-> None]
    ELSE LET parent_record == parents[i]
         IN  IF ~IsDict(parent_record)
             THEN [rows |-> rows, parents |-> parents, err |-> Raise("AttributeError")]
             ELSE LET nested_data == PyGet(parent_record, nested_field, None)
                  IN  IF nested_data = None
                      THEN ParentLoop(rows, parents, nested_field, foreign_key, i + 1)
                      ELSE IF IsList(nested_data)
                      THEN LET c == ChildLoop(rows, nested_data.xs, parent_record,
                                              foreign_key, 1)
                               ps == [parents EXCEPT ![i] =
                                         DictSet(parent_record, nested_field, ListV(c.kids))]
                           IN  IF c.err # None
                               THEN [rows |-> c.rows, parents |-> ps, err |-> c.err]
                               ELSE ParentLoop(c.rows, ps, nested_field, foreign_key, i + 1)
                      ELSE IF IsDict(nested_data)
                      THEN LET nested_record ==
                                  IF foreign_key # <<>> /\ DictHas(parent_record, foreign_key)
                                  THEN DictSet(nested_data, foreign_key,
                                               DictGet(parent_record, foreign_key))
                                  ELSE nested_data
                           IN  ParentLoop(Append(rows, nested_record), parents,
                                          nested_field, foreign_key, i + 1)
                      ELSE ParentLoop(rows, parents, nested_field, foreign_key, i + 1)

\* (an injection that copies nothing)
InjectNothing(record_copy, raw_data, parent_fields, i) == record_copy
\* record.copy() followed by the injection of the parent fields
RECURSIVE InjectFields(_, _, _, _)
InjectFields(record_copy, raw_data, parent_fields, i) ==
    IF i > Len(parent_fields) THEN record_copy
    ELSE InjectFields(IF DictHas(raw_data, parent_fields[i])
                      THEN DictSet(record_copy, parent_fields[i],
                                   DictGet(raw_data, parent_fields[i]))
                      ELSE record_copy,
                      raw_data, parent_fields, i + 1)
CopyWithParentFields(record, raw_data, parent_fields) ==
    IF IsDict(record) THEN InjectFields(record, raw_data, parent_fields, 1)
    ELSE IF IsList(record)
    THEN IF \E i \in 1..Len(parent_fields) : DictHas(raw_data, parent_fields[i])
         THEN Raise("TypeError") ELSE record
    ELSE Raise("AttributeError")

\* (a top-level read that emits a value that is no list as one row)
TopLevelRowsAnyValue(raw_data, source_path, parent_fields) ==
    LET current_data == PyGet(raw_data, source_path, ListV(<<>>))
    IN  IF ~IsList(current_data) THEN ListV(<<current_data>>) ELSE current_data
\* the branch for a path of one segment: the list returned, or the exception raised
TopLevelRows(raw_data, source_path, parent_fields) ==
    LET current_data == PyGet(raw_data, source_path, ListV(<<>>))
    IN  IF ~IsList(current_data) THEN ListV(<<>>)
        ELSE IF parent_fields # <<>>
        THEN ListOrRaise([i \in 1..Len(current_data.xs) |->
                            CopyWithParentFields(current_data.xs[i], raw_data,
                                                 parent_fields)])
        ELSE current_data

\* _extract_data_from_path: [rows, raw]: the returned list (or the exception raised)
\* and raw_data as the call leaves it
_extract_data_from_path(raw_data, source_path, foreign_key, parent_fields) ==
    IF source_path = <<>> THEN [rows |-> ListV(<<>>), raw |-> raw_data]
    ELSE LET path_parts == Split(source_path) IN
    IF Len(path_parts) > 1
    THEN LET front == SubSeq(path_parts, 1, Len(path_parts) - 1)
             parent_data == Navigate(raw_data, front)
         IN  IF IsRaise(parent_data) THEN [rows |-> parent_data, raw |-> raw_data]
             ELSE IF IsList(parent_data) /\ parent_data.xs # <<>>
             THEN LET r == ParentLoop(<<>>, parent_data.xs, path_parts[Len(path_parts)],
                                      foreign_key, 1)
                  IN  [rows |-> IF r.err # None THEN r.err ELSE ListV(r.rows),
                       raw |-> SetAtPath(raw_data, front, ListV(r.parents))]
             ELSE [rows |-> ListV(<<>>), raw |-> raw_data]
    ELSE [rows |-> TopLevelRows(raw_data, source_path, parent_fields), raw |-> raw_data]

(***************************************************************************)
(* processors.generic.GenericProcessor: flattening                         *)
(***************************************************************************)
\* part in item, for an item {name: cfg} of a field list
FirstWith(defs, part) ==
    CHOOSE i \in 1..Len(defs) :
        defs[i].name = part /\ \A j \in 1..(i - 1) : defs[j].name # part
HasDef(defs, part) == \E i \in 1..Len(defs) : defs[i].name = part

\* the search of a dict's list values for an item holding `part`:
\* the pairs <<i, j>> of a hit, of which the loop takes the first
NestedHits(items, part) ==
    UNION { IF IsList(items[i].defs)
            THEN {<<i, j>> : j \in {j \in 1..Len(items[i].defs.xs) :
                                       items[i].defs.xs[j].name = part}}
            ELSE {} : i \in 1..Len(items) }
FirstHit(hits) ==
    CHOOSE ij \in hits :
        \A o \in hits : ij[1] < o[1] \/ (ij[1] = o[1] /\ ij[2] <= o[2])

\* the loop of _find_schema_definition over the path parts
RECURSIVE SchemaWalk(_, _)
SchemaWalk(current_schema, parts) ==
    IF parts = <<>> THEN current_schema
    ELSE LET part == Head(parts) IN
         IF IsList(current_schema)
         THEN IF HasDef(current_schema.xs, part)
              THEN SchemaWalk(current_schema.xs[FirstWith(current_schema.xs, part)].cfg,
                              Tail(parts))
              ELSE EmptyCfg
         ELSE IF current_schema.k = "dict"
         THEN IF \E i \in 1..Len(current_schema.items) :
                     Name(current_schema.items[i].type) = part
              THEN SchemaWalk(current_schema.items[
                                  CHOOSE i \in 1..Len(current_schema.items) :
                                      Name(current_schema.items[i].type) = part].defs,
                              Tail(parts))
              ELSE LET hits == NestedHits(current_schema.items, part)
                   IN  IF hits = {} THEN EmptyCfg
                       ELSE LET h == FirstHit(hits)
                            IN  SchemaWalk(current_schema.items[h[1]].defs.xs[h[2]].cfg,
                                           Tail(parts))
         ELSE EmptyCfg

_find_schema_definition(api_schema, source_path) ==
    IF source_path = <<>> THEN api_schema
    ELSE IF ~\E i \in 1..Len(api_schema.items) : api_schema.items[i].type = "HattrickData"
    THEN EmptyCfg
    ELSE LET start == api_schema.items[CHOOSE i \in 1..Len(api_schema.items) :
                                           api_schema.items[i].type = "HattrickData"].defs
             found == SchemaWalk(start, Split(source_path))
         IN  IF found.k = "dict" THEN found ELSE EmptyCfg

\* _find_field_definition, and the test the caller makes of its result
_find_field_definition(field_definitions, field_name) ==
    HasDef(field_definitions, field_name)

\* a one-element list holding a mapping
IsWrapped(v) == IsList(v) /\ Len(v.xs) = 1 /\ IsDict(v.xs[1])

\* for key, value in obj.items(): flattened[key] = value
RECURSIVE Merge(_, _, _)
Merge(flattened, obj, i) ==
    IF i > Len(obj.items) THEN flattened
    ELSE Merge(DictSet(flattened, obj.items[i].key, obj.items[i].val), obj, i + 1)

\* the loop over the items of the mapping inside a one-element list
RECURSIVE MergeDeep(_, _, _)
MergeDeep(flattened, nested_obj, i) ==
    IF i > Len(nested_obj.items) THEN flattened
    ELSE LET nested_value == nested_obj.items[i].val
         IN  MergeDeep(IF IsWrapped(nested_value)
                       THEN Merge(flattened, nested_value.xs[1], 1)
                       ELSE DictSet(flattened, nested_obj.items[i].key, nested_value),
                       nested_obj, i + 1)

\* a flattening that unwraps one level only
FlattenFieldOneLevel(flattened, field_name, field_value, field_definitions) ==
    IF IsWrapped(field_value) THEN Merge(flattened, field_value.xs[1], 1)
    ELSE DictSet(flattened, field_name, field_value)
\* the body of the loop of _flatten_record over the fields of the record
FlattenField(flattened, field_name, field_value, field_definitions) ==
    IF IsWrapped(field_value) THEN MergeDeep(flattened, field_value.xs[1], 1)
    ELSE IF IsDict(field_value)
    THEN IF _find_field_definition(field_definitions, field_name)
         THEN LET nested_obj == PyGet(field_value, field_name, DictV(<<>>))
              IN  IF IsDict(nested_obj) THEN Merge(flattened, nested_obj, 1)
                  ELSE DictSet(flattened, field_name, field_value)
         ELSE DictSet(flattened, field_name, field_value)
    ELSE DictSet(flattened, field_name, field_value)

RECURSIVE FlattenLoop(_, _, _, _)
FlattenLoop(flattened, record, field_definitions, i) ==
    IF i > Len(record.items) THEN flattened
    ELSE FlattenLoop(FlattenField(flattened, record.items[i].key, record.items[i].val,
                                  field_definitions),
                     record, field_definitions, i + 1)

\* the first list among the values of schema_def, <<>> when there is none
FieldDefinitions(schema_def) ==
    IF \E i \in 1..Len(schema_def.items) : IsList(schema_def.items[i].defs)
    THEN schema_def.items[CHOOSE i \in 1..Len(schema_def.items) :
                              /\ IsList(schema_def.items[i].defs)
                              /\ \A j \in 1..(i - 1) : ~IsList(schema_def.items[j].defs)
                         ].defs.xs
    ELSE <<>>

_flatten_record(record, schema_def) ==
    IF ~IsDict(record) THEN record
    ELSE LET field_definitions == FieldDefinitions(schema_def)
         IN  IF field_definitions = <<>> THEN record
             ELSE FlattenLoop(DictV(<<>>), record, field_definitions, 1)

\* table_data is the sequence of the extracted rows
_flatten_nested_objects(table_data, api_schema, source_path) ==
    IF table_data = <<>> \/ api_schema.items = <<>> THEN table_data
    ELSE LET schema_def == _find_schema_definition(api_schema, source_path)
         IN  IF schema_def.items = <<>> THEN table_data
             ELSE [i \in 1..Len(table_data) |-> _flatten_record(table_data[i], schema_def)]

(***************************************************************************)
(* utils.types: the column types of a table                                *)
(***************************************************************************)
polars_type_map == {"Int64", "Utf8", "Float64", "Boolean", "Date", "Datetime"}

\* (a mapping that keeps the configured name of a type polars_type_map lacks)
get_polars_type_mappingAsConfigured(yaml_types) ==
    [t \in DOMAIN yaml_types |-> yaml_types[t]]
\* yaml_types is definitions['types'], a function from type tag to polars type name
get_polars_type_mapping(yaml_types) ==
    [t \in DOMAIN yaml_types |->
        IF yaml_types[t] \in polars_type_map THEN yaml_types[t] ELSE "Utf8"]

\* type_mapping.get(tag, pl.Utf8)
TypeGet(type_mapping, tag) ==
    IF tag \in DOMAIN type_mapping THEN type_mapping[tag] ELSE "Utf8"

\* _extract_from_fields: field_types after the walk of `fields` from item i on,
\* or the exception raised
RECURSIVE ExtractFromFields(_, _, _, _, _)
ExtractFromFields(field_types, fields_, prefix, type_mapping, i) ==
    IF IsRaise(field_types) THEN field_types
    ELSE IF fields_ = None THEN Raise("TypeError")
    ELSE IF i > Len(fields_.xs) THEN field_types
    ELSE LET field_name == fields_.xs[i].name
             field_config == fields_.xs[i].cfg
             after ==
                 IF field_config.k = "type"
                 THEN DictSet(field_types, prefix \o field_name,
                              TypeGet(type_mapping, field_config.t))
                 ELSE IF field_config.k = "dict"
                 THEN IF field_config.items = <<>> THEN Raise("IndexError")
                      ELSE ExtractFromFields(field_types, field_config.items[1].defs,
                                             field_name \o <<".">>, type_mapping, 1)
                 ELSE field_types
         IN  ExtractFromFields(after, fields_, prefix, type_mapping, i + 1)

extract_field_types(yaml_schema, yaml_types) ==
    ExtractFromFields(DictV(<<>>), yaml_schema.items[1].defs, <<>>,
                      get_polars_type_mapping(yaml_types), 1)

\* full_name.endswith(suffix)
EndsWith(full_name, suffix) ==
    /\ Len(suffix) <= Len(full_name)
    /\ SubSeq(full_name, Len(full_name) - Len(suffix) + 1, Len(full_name)) = suffix

\* (a resolution that tries the suffix match before the exact match)
FieldTypeSuffixFirst(field_name, all_field_types, main_fields, type_mapping) ==
    LET items == all_field_types.items
        hit(i) == EndsWith(items[i].key, <<".">> \o field_name)
    IN  IF \E i \in 1..Len(items) : hit(i)
        THEN items[CHOOSE i \in 1..Len(items) : hit(i) /\ \A j \in 1..(i - 1) : ~hit(j)].val
        ELSE IF DictHas(all_field_types, field_name)
        THEN DictGet(all_field_types, field_name)
        ELSE "Utf8"
\* the type create_table_schema gives one requested field
FieldType(field_name, all_field_types, main_fields, type_mapping) ==
    IF DictHas(all_field_types, field_name) THEN DictGet(all_field_types, field_name)
    ELSE LET items == all_field_types.items
             hit(i) == EndsWith(items[i].key, <<".">> \o field_name)
                           \/ items[i].key = field_name
             main(i) == main_fields.xs[i].name = field_name
                           /\ main_fields.xs[i].cfg.k = "type"
         IN  IF \E i \in 1..Len(items) : hit(i)
             THEN items[CHOOSE i \in 1..Len(items) :
                            hit(i) /\ \A j \in 1..(i - 1) : ~hit(j)].val
             ELSE IF \E i \in 1..Len(main_fields.xs) : main(i)
             THEN TypeGet(type_mapping,
                          main_fields.xs[CHOOSE i \in 1..Len(main_fields.xs) :
                              main(i) /\ \A j \in 1..(i - 1) : ~main(j)].cfg.t)
             ELSE "Utf8"

RECURSIVE SchemaLoop(_, _, _, _, _, _)
SchemaLoop(table_schema, field_names, all_field_types, main_fields, type_mapping, i) ==
    IF i > Len(field_names) THEN table_schema
    ELSE SchemaLoop(DictSet(table_schema, field_names[i],
                            FieldType(field_names[i], all_field_types, main_fields,
                                      type_mapping)),
                    field_names, all_field_types, main_fields, type_mapping, i + 1)

create_table_schema(field_names, yaml_schema, yaml_types) ==
    LET all_field_types == extract_field_types(yaml_schema, yaml_types)
    IN  IF IsRaise(all_field_types) THEN all_field_types
        ELSE SchemaLoop(DictV(<<>>), field_names, all_field_types,
                        yaml_schema.items[1].defs, get_polars_type_mapping(yaml_types), 1)

\* pl.DataFrame(table_data, schema=table_schema) and pl.DataFrame(schema=table_schema):
\* the table's columns with their types, and the rows handed over
\* (a table that has no columns when it has no rows)
DataFrameUntypedWhenEmpty(table_data, table_schema) ==
    [schema |-> IF table_data = <<>> THEN DictV(<<>>) ELSE table_schema,
     rows |-> table_data]
DataFrame(table_data, table_schema) == [schema |-> table_schema, rows |-> table_data]

(***************************************************************************)
(* Inputs of the parsers: schemas and documents                            *)
(***************************************************************************)
\* type tags: the four scalar types, an unrecognised tag, and 'list'
TypeTags == {"int", "float", "bool", "str", "date", "list"}

\* element and attribute texts: none, an integer, malformed, a comma decimal, the same
\* decimal with a period, a boolean
TextPool ==
    {<<>>, <<"7">>, <<"x">>, <<"3", ",", "5">>, <<"3", ".", "5">>, <<"T", "R", "U", "E">>}

CountryFields ==
    ListV(<<Desc(AtName("Id"), TypeCfg("int")), Desc(Name("Name"), TypeCfg("str"))>>)
LeagueFields ==
    ListV(<<Desc(Name("LeagueID"), TypeCfg("int")),
            Desc(Name("Country"), NestedCfg("Country", CountryFields))>>)
\* HattrickData: [ '@Ver': t, N: t, LeagueList: { League: [...] } ]
MainFields(t) ==
    ListV(<<Desc(AtName("Ver"), TypeCfg(t)),
            Desc(Name("N"), TypeCfg(t)),
            Desc(Name("LeagueList"), NestedCfg("League", LeagueFields))>>)
\* a schema whose nested descriptors cannot be resolved: League has no field list,
\* and Cups has no type
BrokenFields ==
    ListV(<<Desc(Name("N"), TypeCfg("int")),
            Desc(Name("LeagueList"), NestedCfg("League", None)),
            Desc(Name("Cups"), EmptyCfg)>>)

Attr(name, text) == [a \in {Name(name)} |-> text]

CountryPlain == El("Country", Attr("Id", <<"3">>), <<>>, <<Leaf("Name", <<"x">>)>>)
CountryWrap ==
    El("Country", NoAttrs, <<>>,
       <<El("Country", Attr("Id", <<"x">>), <<>>, <<Leaf("Name", <<"X">>)>>),
         El("Country", Attr("Id", <<"5">>), <<>>, <<>>)>>)
LeaguePool ==
    { El("League", NoAttrs, <<>>, <<Leaf("LeagueID", <<"7">>), CountryPlain>>),
      El("League", NoAttrs, <<>>, <<Leaf("LeagueID", <<"x">>), CountryWrap>>),
      El("League", NoAttrs, <<>>, <<>>),
      El("League", NoAttrs, <<>>,
         <<Leaf("LeagueID", <<"1", "2">>),
           El("Country", Attr("Id", <<"1">>), <<>>, <<>>),
           El("Country", Attr("Id", <<"2">>), <<>>, <<>>)>>) }
\* <LeagueList> holding League elements, or holding the fields of one League itself
LeagueListElems ==
    {El("LeagueList", NoAttrs, <<>>, ks) : ks \in SeqsUpTo(LeaguePool, MaxRep)}
      \cup {El("LeagueList", NoAttrs, <<>>, <<Leaf("LeagueID", <<"7">>), CountryPlain>>)}
LeagueListOne ==
    El("LeagueList", NoAttrs, <<>>,
       <<El("League", NoAttrs, <<>>, <<Leaf("LeagueID", <<"7">>), CountryPlain>>)>>)
LeagueListPool ==
    { LeagueListOne,
      El("LeagueList", NoAttrs, <<>>, <<Leaf("LeagueID", <<"7">>)>>) }

Root(attrs, kids) == El("HattrickData", attrs, <<>>, kids)

\* documents that vary the attribute and the repeated scalar element
ScalarDocs ==
    { Root(a, ns \o <<LeagueListOne>>) :
        a \in {NoAttrs} \cup {Attr("Ver", t) : t \in {<<>>, <<"7">>, <<"x">>}},
        ns \in SeqsUpTo({Leaf("N", t) : t \in TextPool}, MaxRep) }
\* documents that vary the nested elements
NestedDocs ==
    { Root(NoAttrs, <<Leaf("N", <<"7">>)>> \o ks) :
        ks \in {<<e>> : e \in LeagueListElems} \cup SeqsUpTo(LeagueListPool, MaxRep) }

ParseInputs ==
    {<<d, MainFields(t)>> : d \in ScalarDocs, t \in TypeTags}
      \cup {<<d, f>> : d \in NestedDocs, f \in {MainFields("int"), BrokenFields}}

NoJob == [k |-> "none"]

(***************************************************************************)
(* The parsing runs                                                        *)
(***************************************************************************)
Init ==
    /\ pc = "start"
    /\ \E inp \in ParseInputs : xml = inp[1] /\ fields = inp[2]
    /\ parsed = None
    /\ job = NoJob
    /\ out = None

\* api.parse_xml_response: parse_nested_structure(root, main_fields)
ApiParse ==
    /\ pc = "start"
    /\ parsed' = parse_nested_structure(xml, fields)
    /\ pc' = "api"
    /\ UNCHANGED <<xml, fields, job, out>>

\* utils.xml_parser.parse_xml_response: parse_element(root, main_schema)
XpParse ==
    /\ pc = "start"
    /\ parsed' = parse_element(xml, fields)
    /\ pc' = "xp"
    /\ UNCHANGED <<xml, fields, job, out>>

Next == ApiParse \/ XpParse

Spec == Init /\ [][Next]_vars

(***************************************************************************)
(* Claims about the parsers                                                *)
(***************************************************************************)
\* the key a descriptor's value is to be found under: its name without '@'
KeyOf(d) == LStripAt(d.name)
\* the descriptor's element or attribute is absent from the element
AbsentIn(element, d) ==
    IF StartsWithAt(d.name) THEN KeyOf(d) \notin DOMAIN element.attrs
    ELSE findall(element, d.name) = <<>>
\* the documented zero values: 0, 0.0, false, "" and the empty list
ZeroOf(cfg) ==
    IF IsNestedCfg(cfg) THEN ListV(<<>>)
    ELSE CASE cfg.t = "int" -> IntV(0)
           [] cfg.t = "float" -> FloatV(0, 0)
           [] cfg.t = "bool" -> BoolV(FALSE)
           [] OTHER -> StrV(<<>>)
Stored(d, v) == DictHas(parsed, KeyOf(d)) /\ DictGet(parsed, KeyOf(d)) = v
Descs == {fields.xs[i] : i \in 1..Len(fields.xs)}
SimpleDescs == {d \in Descs : ~IsNestedCfg(d.cfg)}
NestedDescs == {d \in Descs : IsNestedCfg(d.cfg)}

\* C1 as stated: after api.parse_nested_structure, every descriptor whose element or
\* attribute is absent is in the result with 0 / 0.0 / false / "" (str and every other
\* type tag) / [] (nested), and the call returns a mapping.
C1_AbsentDefaultAnyTag ==
    pc = "api" =>
        /\ IsDict(parsed)
        /\ \A d \in Descs : AbsentIn(xml, d) => Stored(d, ZeroOf(d.cfg))

\* C1 amended: as above, except that an absent attribute declared with the type tag
\* 'list' is stored as the empty list (an absent element of that tag is stored as "").
C1_AbsentDefault ==
    pc = "api" =>
        /\ IsDict(parsed)
        /\ \A d \in Descs : AbsentIn(xml, d) =>
              Stored(d, IF ~IsNestedCfg(d.cfg) /\ StartsWithAt(d.name) /\ d.cfg.t = "list"
                        THEN ListV(<<>>) ELSE ZeroOf(d.cfg))

C1_Witness ==
    /\ pc = "api"
    /\ \E d \in SimpleDescs : StartsWithAt(d.name) /\ d.cfg.t = "bool" /\ AbsentIn(xml, d)
    /\ \E d \in SimpleDescs : ~StartsWithAt(d.name) /\ d.cfg.t = "bool" /\ AbsentIn(xml, d)
    /\ DictGet(parsed, Name("Ver")) = BoolV(FALSE)

\* the single text a simple descriptor reads: the attribute's, or the only child's
HasSingleText(element, d) ==
    IF StartsWithAt(d.name) THEN KeyOf(d) \in DOMAIN element.attrs
    ELSE Len(findall(element, d.name)) = 1
SingleText(element, d) ==
    IF StartsWithAt(d.name) THEN element.attrs[KeyOf(d)]
    ELSE findall(element, d.name)[1].text
Unconvertible(text, t) == text = <<>> \/ IsRaise(ConvertText(text, t))

\* C2: an int or float field whose single child element, or attribute, holds empty or
\* malformed text is stored with the zero value 0 / 0.0, and parse_nested_structure
\* returns normally.
C2_UnconvertibleGivesZero ==
    pc = "api" =>
        /\ IsDict(parsed)
        /\ \A d \in SimpleDescs :
              ( /\ d.cfg.t \in {"int", "float"}
                /\ HasSingleText(xml, d)
                /\ Unconvertible(SingleText(xml, d), d.cfg.t) )
              => Stored(d, ZeroOf(d.cfg))

\* C3: in the parser of the pipeline (utils.xml_parser.parse_element) a scalar field that
\* is absent, empty or unparseable is stored as its zero value, never as None, and an
\* absent nested field is stored as the empty list.
C3_PipelineParserDefaults ==
    (pc = "xp" /\ IsDict(parsed)) =>
        \A d \in Descs :
            IF IsNestedCfg(d.cfg)
            THEN AbsentIn(xml, d) => Stored(d, ListV(<<>>))
            ELSE ( \/ AbsentIn(xml, d)
                   \/ Unconvertible(IF StartsWithAt(d.name) THEN SingleText(xml, d)
                                    ELSE findall(xml, d.name)[1].text, d.cfg.t) )
                 => Stored(d, ZeroOf(d.cfg))

\* the scalar of section 4.1 for one text: the conversion, or the zero value
ScalarOf(text, t) ==
    IF Unconvertible(text, t) THEN ZeroOf(TypeCfg(t)) ELSE ConvertText(text, t)

\* C4: for a scalar element descriptor, no child gives the type default, one child gives
\* one parsed scalar, and n > 1 children give the list of the n parsed scalars in
\* document order.
C4_ScalarByCount ==
    (pc \in {"api", "xp"} /\ IsDict(parsed)) =>
        \A d \in SimpleDescs :
            (~StartsWithAt(d.name) /\ d.cfg.t \in {"int", "float", "bool", "str"}) =>
                LET m == findall(xml, d.name)
                IN  /\ Len(m) = 0 => (pc = "api" => Stored(d, ZeroOf(d.cfg)))
                    /\ Len(m) = 1 =>
                          (pc = "api" => Stored(d, ScalarOf(m[1].text, d.cfg.t)))
                    /\ Len(m) > 1 =>
                          Stored(d, ListV([i \in 1..Len(m) |-> ScalarOf(m[i].text, d.cfg.t)]))

\* the nested descriptor cannot be resolved on this element: it names no type, or it
\* has no field list while some element is to be parsed against it
NestedFails(element, d) ==
    \/ d.cfg.items = <<>>
    \/ d.cfg.items[1].defs = None /\ findall(element, d.name) # <<>>

\* C5: after api.parse_nested_structure every nested descriptor holds a list of mappings:
\* the empty list when no child matches or when its resolution fails, and the parses of
\* the matching children, in document order, when several match.
C5_NestedIsListOfMappings ==
    pc = "api" =>
        \A d \in NestedDescs :
            /\ DictHas(parsed, d.name)
            /\ LET v == DictGet(parsed, d.name)
                   m == findall(xml, d.name)
               IN  /\ IsList(v)
                   /\ \A i \in 1..Len(v.xs) : IsDict(v.xs[i])
                   /\ Len(m) = 0 => v = ListV(<<>>)
                   /\ NestedFails(xml, d) => v = ListV(<<>>)
                   /\ (Len(m) > 1 /\ ~NestedFails(xml, d)) =>
                         /\ Len(v.xs) = Len(m)
                         /\ \A i \in 1..Len(m) :
                               v.xs[i] = parse_nested_structure(m[i], d.cfg.items[1].defs)

C5_Witness ==
    /\ pc = "api"
    /\ \E d \in NestedDescs :
          /\ ~NestedFails(xml, d)
          /\ Len(findall(xml, d.name)) = 3
          /\ Len(DictGet(parsed, d.name).xs) = 3

\* C6: with exactly one child matching a nested descriptor, the stored list is the parses
\* of that child's type_name children, in document order, when it has any, and else the
\* one parse of the child itself; in both parsers.
C6_SingleMatch ==
    (pc \in {"api", "xp"} /\ IsDict(parsed)) =>
        \A d \in NestedDescs :
            (~NestedFails(xml, d) /\ Len(findall(xml, d.name)) = 1) =>
                LET m == findall(xml, d.name)[1]
                    defs == d.cfg.items[1].defs
                    inner == findall(m, Name(d.cfg.items[1].type))
                    P(e) == IF pc = "api" THEN parse_nested_structure(e, defs)
                            ELSE parse_element(e, defs)
                IN  /\ DictHas(parsed, d.name)
                    /\ inner # <<>> =>
                          DictGet(parsed, d.name) = ListV([i \in 1..Len(inner) |-> P(inner[i])])
                    /\ inner = <<>> => DictGet(parsed, d.name) = ListV(<<P(m)>>)

C6_Witness ==
    /\ pc = "api"
    /\ \E d \in NestedDescs :
          /\ ~NestedFails(xml, d)
          /\ Len(findall(xml, d.name)) = 1
          /\ Len(findall(findall(xml, d.name)[1], Name(d.cfg.items[1].type))) = 2
          /\ Len(DictGet(parsed, d.name).xs) = 2
          /\ DictGet(parsed, d.name).xs[1] # DictGet(parsed, d.name).xs[2]

\* the try block of parse_nested_structure raises for descriptor d
FieldRaises(element, d) ==
    IF IsNestedCfg(d.cfg) THEN IsRaise(ApiNested(element, d))
    ELSE IsRaise(ApiSimple(element, d).val)
\* the field definitions without descriptor d
Without(defs, d) == ListV(SelectSeq(defs.xs, LAMBDA e : e # d))

\* C7: when resolving one descriptor raises, that field gets its type default, every
\* sibling field has the value it has when the failing descriptor is left out of the
\* schema, and the object is still returned.
C7_FailureIsLocal ==
    pc = "api" =>
        /\ IsDict(parsed)
        /\ \A d \in Descs : FieldRaises(xml, d) =>
              /\ Stored(d, ZeroOf(d.cfg))
              /\ LET rest == parse_nested_structure(xml, Without(fields, d))
                 IN  \A e \in Descs \ {d} :
                        /\ DictHas(rest, KeyOf(e)) /\ DictHas(parsed, KeyOf(e))
                        /\ DictGet(parsed, KeyOf(e)) = DictGet(rest, KeyOf(e))

\* the text with every comma replaced by a period
Period(text) == [i \in 1..Len(text) |-> IF text[i] = "," THEN "." ELSE text[i]]
\* the document with every element text and attribute value so rewritten
RECURSIVE WithPeriods(_)
WithPeriods(element) ==
    [element EXCEPT !.text = Period(element.text),
                    !.attrs = [a \in DOMAIN element.attrs |-> Period(element.attrs[a])],
                    !.kids = [i \in 1..Len(element.kids) |-> WithPeriods(element.kids[i])]]
FloatRun == pc \in {"api", "xp"} /\ fields = MainFields("float")
CommaDecimal == <<"3", ",", "5">>
PeriodDecimal == <<"3", ".", "5">>

\* C20: with float fields, each parser gives for a document the result it gives for the
\* same document with every comma replaced by a period; a single element whose text is
\* "3,5" or "3.5" is stored as the float 3.5.
C20_CommaAsPeriod ==
    /\ (pc = "api" /\ fields = MainFields("float")) =>
          parsed = parse_nested_structure(WithPeriods(xml), fields)
    /\ (pc = "xp" /\ fields = MainFields("float")) =>
          parsed = parse_element(WithPeriods(xml), fields)
    /\ FloatRun =>
          LET m == findall(xml, Name("N"))
          IN  (Len(m) = 1 /\ m[1].text \in {CommaDecimal, PeriodDecimal}) =>
                  /\ IsDict(parsed) /\ DictHas(parsed, Name("N"))
                  /\ DictGet(parsed, Name("N")) = FloatV(35, 1)

\* a document whose one N has the text "3,5" was parsed by api.py to the float 3.5
C20_Witness ==
    /\ pc = "api" /\ fields = MainFields("float")
    /\ Len(findall(xml, Name("N"))) = 1
    /\ findall(xml, Name("N"))[1].text = CommaDecimal
    /\ WithPeriods(xml) # xml
    /\ DictGet(parsed, Name("N")) = FloatV(35, 1)

\* no key of the value, at any depth, starts with '@'
RECURSIVE NoAtKeys(_)
NoAtKeys(v) ==
    IF IsDict(v)
    THEN \A i \in 1..Len(v.items) :
            ~StartsWithAt(v.items[i].key) /\ NoAtKeys(v.items[i].val)
    ELSE IF IsList(v) THEN \A i \in 1..Len(v.xs) : NoAtKeys(v.xs[i])
    ELSE TRUE

\* C21: after api.parse_nested_structure every attribute descriptor '@name' has its
\* value stored under 'name', whether the attribute is present, absent, empty or
\* unconvertible, and no key of the result starts with '@'.
C21_AttributeKeyStripped ==
    pc = "api" =>
        /\ IsDict(parsed)
        /\ \A d \in SimpleDescs : StartsWithAt(d.name) => DictHas(parsed, KeyOf(d))
        /\ NoAtKeys(parsed)

\* C22: after api.parse_nested_structure a scalar element descriptor with n > 1
\* matching children holds a list of n scalars in document order: the type's zero
\* value where the child's text is empty or cannot be converted, the parsed value
\* elsewhere.
C22_ListKeepsLength ==
    pc = "api" =>
        /\ IsDict(parsed)
        /\ \A d \in SimpleDescs :
              (~StartsWithAt(d.name) /\ d.cfg.t \in {"int", "float", "bool", "str"}
                  /\ Len(findall(xml, d.name)) > 1) =>
                  LET m == findall(xml, d.name)
                  IN  /\ DictHas(parsed, d.name)
                      /\ IsList(DictGet(parsed, d.name))
                      /\ Len(DictGet(parsed, d.name).xs) = Len(m)
                      /\ \A i \in 1..Len(m) :
                            DictGet(parsed, d.name).xs[i] = ScalarOf(m[i].text, d.cfg.t)

(***************************************************************************)
(* Inputs of the projection: nested mappings, schemas and table specs      *)
(***************************************************************************)
KV(k, v) == [key |-> Name(k), val |-> v]
\* a key left out of a record
Absent == [k |-> "absent"]
Opt(k, v) == IF v = Absent THEN <<>> ELSE <<KV(k, v)>>

CupA == DictV(<<KV("CupID", IntV(10))>>)
CupB == DictV(<<KV("CupID", IntV(11)), KV("LeagueID", IntV(99))>>)
\* the records of a Cups list: two mappings, one with a LeagueID of its own, and a scalar
CupPool == {CupA, CupB, IntV(7)}
\* the value under Cups: a list, a single mapping, a scalar, None
CupsShapes ==
    {ListV(ks) : ks \in SeqsUpTo(CupPool, MaxKids)} \cup {CupA, IntV(3), None}

CountryObj == DictV(<<KV("CountryID", IntV(5)), KV("Name", StrV(<<"X">>))>>)
ListInList == ListV(<<DictV(<<KV("Country", ListV(<<CountryObj>>))>>)>>)
DictInList == ListV(<<DictV(<<KV("Country", CountryObj)>>)>>)
ListInListInList == ListV(<<DictV(<<KV("Country", ListInList)>>)>>)
\* the value under Country: the object in a one-element list, doubly wrapped with a
\* list or a mapping inside, wrapped three times, a mapping in a mapping, bare, and in
\* a two-element list
CountryShapes ==
    { ListV(<<CountryObj>>), ListInList, DictInList, ListInListInList,
      DictV(<<KV("Country", CountryObj)>>), CountryObj,
      ListV(<<CountryObj, CountryObj>>) }

League(id, cups, country, name) ==
    DictV(Opt("LeagueID", id) \o Opt("Cups", cups) \o Opt("Country", country)
            \o Opt("Name", name))

\* a league whose own Name comes before its Country, which has a Name too
NameFirst ==
    DictV(<<KV("LeagueID", IntV(1)), KV("Name", StrV(<<"L">>)),
            KV("Country", ListV(<<CountryObj>>))>>)
ParentPool ==
    {League(IntV(1), c, Absent, Absent) : c \in CupsShapes \cup {Absent}}
      \cup {League(Absent, ListV(<<CupA>>), Absent, Absent),
            League(Absent, ListV(<<CupA, CupB>>), Absent, Absent),
            League(IntV(2), ListV(<<CupA>>), Absent, Absent)}
      \cup {League(IntV(1), Absent, c, Absent) : c \in CountryShapes}
      \cup {League(IntV(1), Absent, ListInList, StrV(<<"L">>)), IntV(7), NameFirst}

RawData(parents) ==
    DictV(<<KV("FetchedDate", StrV(<<"d">>)), KV("LeagueList", ListV(parents))>>)
\* nested mappings: a LeagueList of records, no LeagueList, a LeagueList that is a mapping
Raws ==
    {RawData(ps) : ps \in SeqsUpTo(ParentPool, MaxRows)}
      \cup {DictV(<<KV("FetchedDate", StrV(<<"d">>))>>),
            DictV(<<KV("LeagueList", League(IntV(1), ListV(<<CupA>>), Absent, Absent))>>)}
SmallRaws == {RawData(ps) : ps \in SeqsUpTo(ParentPool, 1)}

ProjFields ==
    ListV(<<Desc(Name("FetchedDate"), TypeCfg("date")),
            Desc(Name("LeagueList"), NestedCfg("League", ListV(<<
                Desc(Name("LeagueID"), TypeCfg("int")),
                Desc(Name("Cups"), NestedCfg("Cup", ListV(<<
                    Desc(Name("CupID"), TypeCfg("int")),
                    Desc(Name("CupName"), TypeCfg("money"))>>))),
                Desc(Name("Country"), NestedCfg("Country", ListV(<<
                    Desc(Name("CountryID"), TypeCfg("int")),
                    Desc(Name("Name"), TypeCfg("str"))>>)))>>)))>>)
MainSchema == NestedCfg("HattrickData", ProjFields)
\* the endpoint's fields followed by a top-level Name of another type than Country's
ClashSchema ==
    NestedCfg("HattrickData",
              ListV(ProjFields.xs \o <<Desc(Name("Name"), TypeCfg("int"))>>))
\* schemas: the endpoint's, one under another root name, one that cannot be walked,
\* one with a name declared at two depths
Schemas ==
    {MainSchema, NestedCfg("Root", ProjFields), NestedCfg("HattrickData", BrokenFields),
     ClashSchema}

\* definitions['types']: 'money' names a type polars_type_map does not have
YamlTypes ==
    ("int" :> "Int64") @@ ("str" :> "Utf8") @@ ("date" :> "Date")
        @@ ("bool" :> "Boolean") @@ ("money" :> "Decimal")
NoTypes == [t \in {} |-> "Utf8"]

Table(name, source_path, fields_, foreign_key, parent_fields) ==
    [name |-> Name(name), source_path |-> source_path, fields |-> fields_,
     foreign_key |-> foreign_key, parent_fields |-> parent_fields]
TCups(foreign_key) ==
    Table("cups", <<"LeagueList", ".", "Cups">>,
          <<Name("CupID"), Name("LeagueID"), Name("CupName")>>, foreign_key, <<>>)
TLeagues(parent_fields) ==
    Table("leagues", <<"LeagueList">>,
          <<Name("LeagueID"), Name("CountryID"), Name("Name"), Name("FetchedDate"),
            Name("LeagueID"), Name("Nowhere")>>, <<>>, parent_fields)
TCountry ==
    Table("countries", <<"LeagueList", ".", "Country">>,
          <<Name("CountryID"), Name("Name"), Name("LeagueID")>>, Name("LeagueID"), <<>>)
TDeep ==
    Table("rounds", <<"LeagueList", ".", "Cups", ".", "Rounds">>,
          <<Name("RoundID")>>, Name("LeagueID"), <<>>)
TNoPath == Table("nothing", <<>>, <<Name("CupID")>>, <<>>, <<>>)

\* output_schema.tables, in the order of the configuration
TableLists ==
    { <<TCups(Name("LeagueID"))>>,
      <<TCups(<<>>)>>,
      <<TLeagues(<<>>), TCups(Name("LeagueID"))>>,
      <<TCups(Name("LeagueID")), TLeagues(<<Name("FetchedDate"), Name("UserID")>>)>>,
      <<TCountry>>,
      <<TNoPath, TDeep>> }

Job(raw_data, api_schema, yaml_types, table_configs) ==
    [raw |-> raw_data, api_schema |-> api_schema, types |-> yaml_types,
     tables |-> table_configs, idx |-> 1, table_data |-> None,
     run |-> 1, given |-> raw_data, first |-> None, written |-> <<>>]
Jobs ==
    {Job(r, MainSchema, YamlTypes, ts) : r \in Raws, ts \in TableLists}
      \cup {Job(r, a, y, <<TLeagues(<<>>)>>) :
              r \in SmallRaws, a \in Schemas, y \in {YamlTypes, NoTypes}}

(***************************************************************************)
(* The projection run: _transform_data, one table after the other          *)
(***************************************************************************)
ProjInit ==
    /\ pc = "extract"
    /\ job \in Jobs
    /\ out = DictV(<<>>)
    /\ xml = None /\ fields = None /\ parsed = None

CurTable == job.tables[job.idx]

\* table_data = self._extract_data_from_path(...): raw_data keeps what the call
\* wrote into its records; an exception ends the run
Extract ==
    /\ pc = "extract"
    /\ LET e == _extract_data_from_path(job.raw, CurTable.source_path,
                                        CurTable.foreign_key, CurTable.parent_fields)
       IN  /\ job' = [job EXCEPT !.raw = e.raw, !.table_data = e.rows]
           /\ pc' = IF IsRaise(e.rows) THEN "failed" ELSE "flatten"
           /\ out' = IF IsRaise(e.rows) THEN e.rows ELSE out
    /\ UNCHANGED <<xml, fields, parsed>>

\* if table_data: table_data = self._flatten_nested_objects(...)
Flatten ==
    /\ pc = "flatten"
    /\ job' = [job EXCEPT !.table_data =
                  ListV(_flatten_nested_objects(job.table_data.xs, job.api_schema,
                                                CurTable.source_path))]
    /\ pc' = "frame"
    /\ UNCHANGED <<xml, fields, parsed, out>>

\* table_schema = create_table_schema(...); dataframes[table_name] = pl.DataFrame(...)
Frame ==
    /\ pc = "frame"
    /\ LET table_schema == create_table_schema(CurTable.fields, job.api_schema, job.types)
       IN  IF IsRaise(table_schema)
           THEN /\ out' = table_schema
                /\ pc' = "failed"
                /\ job' = job
           ELSE /\ out' = DictSet(out, CurTable.name,
                                  DataFrame(job.table_data.xs, table_schema))
                /\ pc' = IF job.idx = Len(job.tables) THEN "done" ELSE "extract"
                /\ job' = [job EXCEPT !.idx = IF job.idx = Len(job.tables)
                                               THEN job.idx ELSE job.idx + 1]
    /\ UNCHANGED <<xml, fields, parsed>>

\* a further call of _transform_data with the same raw_data object and the same
\* table_configs; `given` is raw_data as this call receives it, `first` what the
\* first call returned
Rerun ==
    /\ pc = "done"
    /\ job.run < MaxRuns
    /\ job' = [job EXCEPT !.run = job.run + 1, !.idx = 1, !.table_data = None,
                          !.given = job.raw,
                          !.first = IF job.run = 1 THEN out ELSE job.first]
    /\ out' = DictV(<<>>)
    /\ pc' = "extract"
    /\ UNCHANGED <<xml, fields, parsed>>

\* the loop of process_to_parquet over dataframes.items(): _save_dataframe writes one
\* file per table, in the order of the tables; df.write_parquet may raise for any
\* file (k is the file whose write raises, 0 when none does), and the files written
\* before it stay where they are
Save ==
    /\ pc = "done"
    /\ \E k \in 0..Len(out.items) :
          IF k = 0
          THEN /\ job' = [job EXCEPT !.written = DictKeys(out)]
               /\ pc' = "saved"
               /\ out' = ListV(DictKeys(out))
          ELSE /\ job' = [job EXCEPT !.written = SubSeq(DictKeys(out), 1, k - 1)]
               /\ pc' = "save_failed"
               /\ out' = Raise("OSError")
    /\ UNCHANGED <<xml, fields, parsed>>

ProjNext == Extract \/ Flatten \/ Frame \/ Rerun \/ Save

ProjSpec == ProjInit /\ [][ProjNext]_vars

(***************************************************************************)
(* Claims about the projection                                             *)
(***************************************************************************)
PathParts == Split(CurTable.source_path)
\* the list the first segment of a two-segment path names, <<>> when it is no list
ParentsOf(raw_data) ==
    LET parent_data == PyGet(raw_data, PathParts[1], ListV(<<>>))
    IN  IF IsList(parent_data) THEN parent_data.xs ELSE <<>>
\* the records a parent holds under the last segment
KidsOf(parent_record) ==
    LET nested_data == PyGet(parent_record, PathParts[2], None)
    IN  IF IsList(nested_data) THEN nested_data.xs
        ELSE IF IsDict(nested_data) THEN <<nested_data>>
        ELSE <<>>
\* <<i, j>> for record j of parent i, parent after parent
RECURSIVE Origins(_, _)
Origins(parents, i) ==
    IF i > Len(parents) THEN <<>>
    ELSE [j \in 1..Len(KidsOf(parents[i])) |-> <<i, j>>] \o Origins(parents, i + 1)
\* a mapping agrees with `record` on every key but `key`
SameBut(row, record, key) ==
    /\ \A i \in 1..Len(record.items) : record.items[i].key # key =>
          /\ DictHas(row, record.items[i].key)
          /\ DictGet(row, record.items[i].key) = record.items[i].val
    /\ \A i \in 1..Len(row.items) : row.items[i].key # key =>
          DictHas(record, row.items[i].key)

\* C8: an extraction over a two-segment source_path with foreign_key set emits one
\* row per nested record, parent after parent; a row from a parent that has the
\* foreign-key field carries that field with the parent's value and is otherwise the
\* nested record; a row from a parent without the field is the nested record as it was.
C8_ForeignKeyPropagation ==
    [][ (pc = "extract" /\ pc' = "flatten" /\ Len(PathParts) = 2
            /\ CurTable.foreign_key # <<>>) =>
        LET foreign_key == CurTable.foreign_key
            parents == ParentsOf(job.raw)
            origin == Origins(parents, 1)
            rows == job'.table_data.xs
        IN  /\ Len(rows) = Len(origin)
            /\ \A n \in 1..Len(origin) :
                  LET parent_record == parents[origin[n][1]]
                      nested_record == KidsOf(parent_record)[origin[n][2]]
                  IN  IF DictHas(parent_record, foreign_key)
                      THEN /\ DictHas(rows[n], foreign_key)
                           /\ DictGet(rows[n], foreign_key)
                                  = DictGet(parent_record, foreign_key)
                           /\ SameBut(rows[n], nested_record, foreign_key)
                      ELSE rows[n] = nested_record ]_vars

\* rows were emitted both from a parent with the foreign key and from one without
C8_Witness ==
    /\ pc = "flatten" /\ Len(PathParts) = 2 /\ CurTable.foreign_key = Name("LeagueID")
    /\ LET parents == ParentsOf(job.raw)
       IN  /\ Len(parents) = 2
           /\ DictHas(parents[1], Name("LeagueID")) /\ KidsOf(parents[1]) # <<>>
           /\ ~DictHas(parents[2], Name("LeagueID")) /\ Len(KidsOf(parents[2])) = 2
    /\ Len(job.table_data.xs) >= 3
    /\ DictGet(job.table_data.xs[1], Name("LeagueID")) = IntV(1)
    /\ ~DictHas(job.table_data.xs[Len(job.table_data.xs) - 1], Name("LeagueID"))

\* the flatten pass has field definitions for the table's source path
FlattenRuns ==
    FieldDefinitions(_find_schema_definition(job.api_schema, CurTable.source_path)) # <<>>
\* field i of the record holds a one-element list whose only mapping has one key
OneKeyWrapper(record, i) ==
    /\ IsWrapped(record.items[i].val)
    /\ Len(record.items[i].val.xs[1].items) = 1
InnerOf(record, i) == record.items[i].val.xs[1].items[1]
\* the other fields of the record are scalars under names that are neither a wrapper
\* key nor a field of the object, and the object has no field named like a wrapper
Unmixed(record, i, obj) ==
    LET wrappers == {record.items[i].key, InnerOf(record, i).key}
        own == {obj.items[k].key : k \in 1..Len(obj.items)}
    IN  /\ own \cap wrappers = {}
        /\ \A j \in (1..Len(record.items)) \ {i} :
              /\ ~IsList(record.items[j].val) /\ ~IsDict(record.items[j].val)
              /\ record.items[j].key \notin own \cup wrappers
\* the flattened row has the object's fields at top level and neither wrapper key
Unwrapped(flat, record, i, obj) ==
    /\ IsDict(flat)
    /\ \A k \in 1..Len(obj.items) :
          DictHas(flat, obj.items[k].key)
              /\ DictGet(flat, obj.items[k].key) = obj.items[k].val
    /\ ~DictHas(flat, record.items[i].key)
    /\ ~DictHas(flat, InnerOf(record, i).key)

RECURSIVE Dedup(_)
Dedup(names) ==
    IF names = <<>> THEN <<>>
    ELSE LET front == SubSeq(names, 1, Len(names) - 1)
             last == names[Len(names)]
         IN  IF \E i \in 1..Len(front) : front[i] = last THEN Dedup(front)
             ELSE Append(Dedup(front), last)
TableNamed(name) ==
    job.tables[CHOOSE i \in 1..Len(job.tables) : job.tables[i].name = name]

\* C10: every table produced has as its columns the names of its fields list, in
\* declared order, each with the type create_table_schema resolves from the schema,
\* whatever number of rows the extraction gave.
C10_ColumnsFromFields ==
    (pc \in {"extract", "flatten", "frame", "done"} /\ IsDict(out)) =>
        \A i \in 1..Len(out.items) :
            LET t == TableNamed(out.items[i].key)
                df == out.items[i].val
                table_schema == create_table_schema(t.fields, job.api_schema, job.types)
            IN  /\ DictKeys(df.schema) = Dedup(t.fields)
                /\ \A c \in 1..Len(df.schema.items) :
                      df.schema.items[c].val
                          = DictGet(table_schema, df.schema.items[c].key)

\* a run gave a table with rows and a table without rows, each with its typed columns
C10_Witness ==
    /\ pc = "done" /\ Len(out.items) = 2
    /\ out.items[1].key = Name("leagues") /\ Len(out.items[1].val.rows) = 2
    /\ out.items[1].val.schema
          = DictV(<<KV("LeagueID", "Int64"), KV("CountryID", "Int64"),
                    KV("Name", "Utf8"), KV("FetchedDate", "Date"),
                    KV("Nowhere", "Utf8")>>)
    /\ out.items[2].key = Name("cups") /\ out.items[2].val.rows = <<>>
    /\ out.items[2].val.schema
          = DictV(<<KV("CupID", "Int64"), KV("LeagueID", "Int64"),
                    KV("CupName", "Utf8")>>)

\* _transform_data as one call: [out, raw], the tables returned (or the exception
\* raised) and raw_data as the call leaves it
RECURSIVE RunTables(_, _, _, _, _, _)
RunTables(dataframes, raw_data, table_configs, api_schema, yaml_types, i) ==
    IF i > Len(table_configs) THEN [out |-> dataframes, raw |-> raw_data]
    ELSE LET t == table_configs[i]
             e == _extract_data_from_path(raw_data, t.source_path, t.foreign_key,
                                          t.parent_fields)
         IN  IF IsRaise(e.rows) THEN [out |-> e.rows, raw |-> e.raw]
             ELSE LET table_data == _flatten_nested_objects(e.rows.xs, api_schema,
                                                            t.source_path)
                      table_schema == create_table_schema(t.fields, api_schema,
                                                          yaml_types)
                  IN  IF IsRaise(table_schema) THEN [out |-> table_schema, raw |-> e.raw]
                      ELSE RunTables(DictSet(dataframes, t.name,
                                             DataFrame(table_data, table_schema)),
                                     e.raw, table_configs, api_schema, yaml_types, i + 1)
_transform_data(raw_data, table_configs, api_schema, yaml_types) ==
    RunTables(DictV(<<>>), raw_data, table_configs, api_schema, yaml_types, 1)

\* the table specs without the one at position i
Dropping(table_configs, i) ==
    SubSeq(table_configs, 1, i - 1) \o SubSeq(table_configs, i + 1, Len(table_configs))

\* C11: no extraction ends a run with an exception; and in a finished run a table
\* whose extraction gave no rows leaves every other table with the output it has
\* when that table spec is not part of the output schema.
C11_TablesIndependent ==
    /\ pc = "failed" => ~IsRaise(job.table_data)
    /\ pc = "done" =>
          \A i \in 1..Len(job.tables) :
              DictGet(out, job.tables[i].name).rows = <<>> =>
                  LET rest == _transform_data(job.given, Dropping(job.tables, i),
                                              job.api_schema, job.types).out
                  IN  \A j \in (1..Len(job.tables)) \ {i} :
                          /\ IsDict(rest) /\ DictHas(rest, job.tables[j].name)
                          /\ DictGet(rest, job.tables[j].name)
                                = DictGet(out, job.tables[j].name)

\* the cells of a table: for every row, the values under the table's columns
Cell(row, column) == IF IsDict(row) THEN PyGet(row, column, None) ELSE row
Cells(df) ==
    [n \in 1..Len(df.rows) |->
        [c \in 1..Len(df.schema.items) |-> Cell(df.rows[n], df.schema.items[c].key)]]

\* C12: the second run over the same nested mapping object returns, for every table,
\* the rows of the first run in the same order.
C12_SecondRunSame ==
    (pc = "done" /\ job.run = 2) =>
        /\ DictKeys(out) = DictKeys(job.first)
        /\ \A i \in 1..Len(out.items) :
              Cells(out.items[i].val) = Cells(job.first.items[i].val)

\* the types of the keys of the flattened map that end with '.' and the name
SuffixTypes(all_field_types, field_name) ==
    {all_field_types.items[i].val : i \in
        {i \in 1..Len(all_field_types.items) :
            EndsWith(all_field_types.items[i].key, <<".">> \o field_name)}}
\* the type tags of the scalar descriptors of that name among the top-level fields
TopLevelTags(main_fields, field_name) ==
    {main_fields.xs[i].cfg.t : i \in
        {i \in 1..Len(main_fields.xs) :
            main_fields.xs[i].name = field_name /\ main_fields.xs[i].cfg.k = "type"}}

\* C13: the type of every column of a produced table is the type of the field's name
\* in the flattened name-to-type map when the name is a key of it; else the type of
\* a key that ends with '.' and the name when there is one; else the mapped type of
\* the top-level scalar descriptor of that name when there is one; else Utf8.
C13_ResolutionOrder ==
    (pc \in {"extract", "flatten", "frame", "done"} /\ IsDict(out)) =>
        \A i \in 1..Len(out.items) :
            LET df == out.items[i].val
                all_field_types == extract_field_types(job.api_schema, job.types)
                main_fields == job.api_schema.items[1].defs
            IN  \A c \in 1..Len(df.schema.items) :
                    LET field_name == df.schema.items[c].key
                        type == df.schema.items[c].val
                    IN  IF DictHas(all_field_types, field_name)
                        THEN type = DictGet(all_field_types, field_name)
                        ELSE IF SuffixTypes(all_field_types, field_name) # {}
                        THEN type \in SuffixTypes(all_field_types, field_name)
                        ELSE IF TopLevelTags(main_fields, field_name) # {}
                        THEN \E t \in TopLevelTags(main_fields, field_name) :
                                type = TypeGet(get_polars_type_mapping(job.types), t)
                        ELSE type = "Utf8"

\* a table whose Name is typed by the exact key although Country.Name comes first in
\* the map, whose LeagueID is typed by a suffix match, and whose Nowhere matches nothing
C13_Witness ==
    /\ pc = "done" /\ job.api_schema = ClashSchema /\ job.types = YamlTypes
    /\ LET all_field_types == extract_field_types(job.api_schema, job.types)
       IN  /\ DictGet(all_field_types, <<"Country", ".", "Name">>) = "Utf8"
           /\ DictGet(all_field_types, Name("Name")) = "Int64"
           /\ ~DictHas(all_field_types, Name("LeagueID"))
    /\ DictGet(DictGet(out, Name("leagues")).schema, Name("Name")) = "Int64"
    /\ DictGet(DictGet(out, Name("leagues")).schema, Name("LeagueID")) = "Int64"
    /\ DictGet(DictGet(out, Name("leagues")).schema, Name("Nowhere")) = "Utf8"

\* the source path has one segment
OneSegment == CurTable.source_path # <<>> /\ Len(PathParts) = 1
\* the elements of the list under the path's key, <<>> when there is no such list
TopLevelList(raw_data) ==
    LET current_data == PyGet(raw_data, CurTable.source_path, None)
    IN  IF IsList(current_data) THEN current_data.xs ELSE <<>>
\* a row that is the record, apart from what it holds under the keys
AgreesOutside(row, record, keys) ==
    IF IsDict(record)
    THEN /\ IsDict(row)
         /\ \A i \in 1..Len(record.items) : record.items[i].key \notin keys =>
               /\ DictHas(row, record.items[i].key)
               /\ DictGet(row, record.items[i].key) = record.items[i].val
         /\ \A i \in 1..Len(row.items) : row.items[i].key \notin keys =>
               DictHas(record, row.items[i].key)
    ELSE row = record
SetOf(names) == {names[i] : i \in 1..Len(names)}

\* C16: an extraction over a one-segment source_path whose key is absent from the
\* top-level mapping or holds a value that is no list returns no rows and does not
\* raise; when the key holds a list, the rows returned are its elements in order, one
\* per element (each with the parent fields added when parent_fields is set).
C16_OneSegment ==
    [][ (pc = "extract" /\ OneSegment) =>
        LET current_data == PyGet(job.raw, CurTable.source_path, None)
        IN  IF ~IsList(current_data)
            THEN pc' = "flatten" /\ job'.table_data = ListV(<<>>)
            ELSE pc' = "flatten" =>
                   /\ Len(job'.table_data.xs) = Len(current_data.xs)
                   /\ \A n \in 1..Len(current_data.xs) :
                         IF CurTable.parent_fields = <<>>
                         THEN job'.table_data.xs[n] = current_data.xs[n]
                         ELSE AgreesOutside(job'.table_data.xs[n], current_data.xs[n],
                                            SetOf(CurTable.parent_fields)) ]_vars

\* the leagues table was extracted from a list of two different records
C16_Witness ==
    /\ pc = "flatten" /\ OneSegment /\ CurTable.parent_fields = <<>>
    /\ Len(TopLevelList(job.raw)) = 2
    /\ TopLevelList(job.raw)[1] # TopLevelList(job.raw)[2]
    /\ job.table_data.xs = TopLevelList(job.raw)

\* C17: an extraction over a two-segment source_path that returns gives the
\* concatenation, in parent order, of what each parent record holds under the last
\* segment: the elements of a list in order, a single mapping as one row, nothing
\* for an absent value; each row is the nested record, apart from the foreign key.
C17_TwoSegments ==
    [][ (pc = "extract" /\ pc' = "flatten" /\ Len(PathParts) = 2) =>
        LET parents == ParentsOf(job.raw)
            origin == Origins(parents, 1)
            rows == job'.table_data.xs
        IN  /\ Len(rows) = Len(origin)
            /\ \A n \in 1..Len(origin) :
                  AgreesOutside(rows[n],
                                KidsOf(parents[origin[n][1]])[origin[n][2]],
                                {CurTable.foreign_key}) ]_vars

\* rows came from a parent with a list of two records and from a parent with a
\* single mapping
C17_Witness ==
    /\ pc = "flatten" /\ Len(PathParts) = 2 /\ CurTable.foreign_key = <<>>
    /\ ParentsOf(job.raw)
          = <<League(IntV(1), ListV(<<CupA, CupB>>), Absent, Absent),
              League(IntV(1), CupA, Absent, Absent)>>
    /\ job.table_data.xs = <<CupA, CupB, CupA>>

\* C18: an extraction over a one-segment source_path with parent_fields that returns
\* gives one row per element of the list, in order; every row carries each parent
\* field that the top-level mapping has, with the top-level value; a parent field
\* the top-level mapping lacks is not added; elsewhere the row is the element.
C18_ParentFields ==
    [][ (pc = "extract" /\ pc' = "flatten" /\ OneSegment
            /\ CurTable.parent_fields # <<>>) =>
        LET elements == TopLevelList(job.raw)
            rows == job'.table_data.xs
            parent_fields == SetOf(CurTable.parent_fields)
        IN  /\ Len(rows) = Len(elements)
            /\ \A n \in 1..Len(elements) :
                  /\ AgreesOutside(rows[n], elements[n], parent_fields)
                  /\ \A f \in parent_fields :
                        IF DictHas(job.raw, f)
                        THEN DictHas(rows[n], f)
                                /\ DictGet(rows[n], f) = DictGet(job.raw, f)
                        ELSE DictHas(rows[n], f) <=> DictHas(elements[n], f) ]_vars

\* two league rows got FetchedDate from the top-level mapping and no UserID
C18_Witness ==
    /\ pc = "flatten" /\ OneSegment
    /\ CurTable.parent_fields = <<Name("FetchedDate"), Name("UserID")>>
    /\ Len(job.table_data.xs) = 2 /\ Len(TopLevelList(job.raw)) = 2
    /\ \A n \in 1..2 :
          /\ ~DictHas(TopLevelList(job.raw)[n], Name("FetchedDate"))
          /\ DictGet(job.table_data.xs[n], Name("FetchedDate")) = StrV(<<"d">>)
          /\ ~DictHas(job.table_data.xs[n], Name("UserID"))

\* the logical types the schema declares for scalar fields of this name, at any depth
RECURSIVE DeclaredTags(_, _)
DeclaredTags(fields_, field_name) ==
    IF ~IsList(fields_) THEN {}
    ELSE UNION {LET field_config == fields_.xs[i].cfg
                IN  IF field_config.k = "type"
                    THEN IF fields_.xs[i].name = field_name THEN {field_config.t} ELSE {}
                    ELSE IF field_config.items = <<>> THEN {}
                    ELSE DeclaredTags(field_config.items[1].defs, field_name)
                : i \in 1..Len(fields_.xs)}
\* a schema whose every nested descriptor has a type and a list of fields
RECURSIVE Walkable(_)
Walkable(fields_) ==
    /\ IsList(fields_)
    /\ \A i \in 1..Len(fields_.xs) :
          LET field_config == fields_.xs[i].cfg
          IN  field_config.k = "dict" =>
                  /\ field_config.items # <<>>
                  /\ Walkable(field_config.items[1].defs)
\* the type table gives the logical type no column type that polars has
Unmapped(yaml_types, tag) ==
    \/ tag \notin DOMAIN yaml_types
    \/ yaml_types[tag] \notin {"Int64", "Utf8", "Float64", "Boolean", "Date", "Datetime"}

\* C19: a column of a produced table whose name the schema declares only with logical
\* types that the type table lacks, or maps to a name that is none of
\* Int64/Utf8/Float64/Boolean/Date/Datetime, has the string type Utf8; and typing
\* the columns raises only for a schema that cannot be walked, never for a type.
C19_UnknownTypeIsString ==
    /\ (pc \in {"extract", "flatten", "frame", "done"} /\ IsDict(out)) =>
          \A i \in 1..Len(out.items) :
              LET df == out.items[i].val
                  main_fields == job.api_schema.items[1].defs
              IN  \A c \in 1..Len(df.schema.items) :
                      LET tags == DeclaredTags(main_fields, df.schema.items[c].key)
                      IN  (tags # {} /\ \A t \in tags : Unmapped(job.types, t))
                              => df.schema.items[c].val = "Utf8"
    /\ (pc = "failed" /\ ~IsRaise(job.table_data))
          => ~Walkable(job.api_schema.items[1].defs)

\* a cups table whose CupName is declared 'money', which the type table maps to
\* 'Decimal', next to an Int64 column
C19_Witness ==
    /\ pc = "done" /\ IsDict(out) /\ DictHas(out, Name("cups"))
    /\ DeclaredTags(job.api_schema.items[1].defs, Name("CupName")) = {"money"}
    /\ "money" \in DOMAIN job.types /\ job.types["money"] = "Decimal"
    /\ DictGet(DictGet(out, Name("cups")).schema, Name("CupName")) = "Utf8"
    /\ DictGet(DictGet(out, Name("cups")).schema, Name("CupID")) = "Int64"

\* what the records hold under the segment, record after record: the elements of a
\* list, a single mapping as one record, nothing otherwise
RECURSIVE Under(_, _, _)
Under(records, part, i) ==
    IF i > Len(records) THEN <<>>
    ELSE LET value == IF IsDict(records[i]) THEN PyGet(records[i], part, None) ELSE None
             here == IF IsList(value) THEN value.xs
                     ELSE IF IsDict(value) THEN <<value>> ELSE <<>>
         IN  here \o Under(records, part, i + 1)
\* the records reached from `records` by walking the segments, one level per segment
RECURSIVE Walk(_, _)
Walk(records, parts) ==
    IF parts = <<>> THEN records ELSE Walk(Under(records, Head(parts), 1), Tail(parts))

\* C23: an extraction over a source_path of three or more segments does not raise;
\* it walks every intermediate segment as a list of parent records and emits what
\* every innermost parent record holds under the last segment (apart from the
\* foreign key).
C23_DeepPath ==
    [][ (pc = "extract" /\ Len(PathParts) >= 3) =>
        /\ pc' = "flatten"
        /\ ~IsRaise(job'.table_data)
        /\ LET expected == Walk(<<job.raw>>, PathParts)
               rows == job'.table_data.xs
           IN  /\ Len(rows) = Len(expected)
               /\ \A n \in 1..Len(expected) :
                     AgreesOutside(rows[n], expected[n], {CurTable.foreign_key}) ]_vars

\* C24: after a flatten pass that runs, no row holds a field whose value is a
\* one-element list of mappings, whatever the depth of the wrappers in the extracted
\* record.
C24_NoWrapperLeft ==
    (pc = "frame" /\ FlattenRuns) =>
        \A n \in 1..Len(job.table_data.xs) :
            LET row == job.table_data.xs[n]
            IN  IsDict(row) => \A i \in 1..Len(row.items) : ~IsWrapped(row.items[i].val)

\* C25: a run that has ended in failure, in the transformation of a table or in the
\* writing of a table file, has written no table file.
C25_NoPartialWrites ==
    pc \in {"failed", "save_failed"} => job.written = <<>>

\* C26: when _transform_data has returned, the nested mapping passed in has, at every
\* depth, the keys and values it had when the call received it.
C26_InputUnchanged ==
    pc = "done" => job.raw = job.given

\* C28: the flatten pass keeps every top-level field of a row whose value is neither a
\* list nor a mapping: the flattened row has the key with the same value.
C28_ScalarsKept ==
    [][ (pc = "flatten" /\ pc' = "frame") =>
        \A n \in 1..Len(job.table_data.xs) :
            LET record == job.table_data.xs[n]
                flattened == job'.table_data.xs[n]
            IN  IsDict(record) =>
                \A i \in 1..Len(record.items) :
                    (~IsList(record.items[i].val) /\ ~IsDict(record.items[i].val)) =>
                        /\ IsDict(flattened)
                        /\ DictHas(flattened, record.items[i].key)
                        /\ DictGet(flattened, record.items[i].key)
                              = record.items[i].val ]_vars

\* the field list of the records the path leads to, None when the schema has none
RECURSIVE SubFields(_, _)
SubFields(fields_, parts) ==
    IF parts = <<>> \/ ~IsList(fields_) THEN fields_
    ELSE LET hit(i) == /\ fields_.xs[i].name = Head(parts)
                       /\ fields_.xs[i].cfg.k = "dict"
                       /\ fields_.xs[i].cfg.items # <<>>
         IN  IF \E i \in 1..Len(fields_.xs) : hit(i)
             THEN SubFields(fields_.xs[CHOOSE i \in 1..Len(fields_.xs) : hit(i)]
                                .cfg.items[1].defs,
                            Tail(parts))
             ELSE None
\* the logical types of the descriptors a value of the table's column can have been
\* parsed from: the scalars of that name in the records of the source path and in
\* the objects nested in them, the parent record's scalar for the foreign key, the
\* top-level scalar for a parent field
OriginTags(t, field_name) ==
    LET main_fields == job.api_schema.items[1].defs
        parts == IF t.source_path = <<>> THEN <<>> ELSE Split(t.source_path)
        parent == SubFields(main_fields, SubSeq(parts, 1, Len(parts) - 1))
    IN  (IF parts = <<>> THEN {}
         ELSE DeclaredTags(SubFields(main_fields, parts), field_name))
          \cup (IF field_name = t.foreign_key /\ IsList(parent)
                THEN TopLevelTags(parent, field_name) ELSE {})
          \cup (IF field_name \in SetOf(t.parent_fields) /\ IsList(main_fields)
                THEN TopLevelTags(main_fields, field_name) ELSE {})

\* C29: in every table produced, a column that some row holds a value for has the
\* mapped type of a schema descriptor that value can have been parsed from, not the
\* type of a descriptor elsewhere in the schema that shares the name.
C29_TypeOfOwnDescriptor ==
    (pc \in {"extract", "flatten", "frame", "done"} /\ IsDict(out)) =>
        \A i \in 1..Len(out.items) :
            LET df == out.items[i].val
                t == TableNamed(out.items[i].key)
            IN  \A c \in 1..Len(df.schema.items) :
                    LET field_name == df.schema.items[c].key
                        tags == OriginTags(t, field_name)
                        held == \E n \in 1..Len(df.rows) :
                                    IsDict(df.rows[n]) /\ DictHas(df.rows[n], field_name)
                    IN  (held /\ tags # {}) =>
                            df.schema.items[c].val
                                \in {TypeGet(get_polars_type_mapping(job.types), tag) :
                                        tag \in tags}

(***************************************************************************)
(* config.Config, api.get_latest_version and the entry of                  *)
(* GenericProcessor.process_to_parquet                                     *)
(***************************************************************************)
DigitChar(d) == CHOOSE c \in Digits : DigitVal(c) = d
\* str(n) for n >= 0
RECURSIVE IntDigits(_)
IntDigits(n) ==
    IF n < 10 THEN <<DigitChar(n)>> ELSE Append(IntDigits(n \div 10), DigitChar(n % 10))
RECURSIVE Pad(_, _)
Pad(ds, width) == IF Len(ds) >= width THEN ds ELSE Pad(<<"0">> \o ds, width)
\* str(x) for a float x >= 0 that prints without exponent
FloatStr(f) ==
    IntDigits(f.m \div Pow10(f.e)) \o <<".">>
        \o (IF f.e = 0 THEN <<"0">> ELSE Pad(IntDigits(f.m % Pow10(f.e)), f.e))
\* a >= b on floats
FloatGeq(a, b) == a.m * Pow10(b.e) >= b.m * Pow10(a.e)

\* str(max([float(v) for v in keys])), of a mapping from version key to anything
LatestOf(version) ==
    LET floats == {PyFloat(v) : v \in DOMAIN version}
    IN  IF floats = {} \/ \E f \in floats : IsRaise(f) THEN Raise("ValueError")
        ELSE StrV(FloatStr(CHOOSE f \in floats : \A g \in floats : FloatGeq(f, g)))

\* an endpoint of the configuration file that has no 'version' entry
Unversioned == [k |-> "unversioned"]
\* Config._load_config: the endpoints that have a 'version' entry
_endpoints(raw_config) ==
    {n \in DOMAIN raw_config : raw_config[n] # Unversioned}

\* api.get_latest_version
get_latest_version(raw_config, endpoint_name) ==
    IF endpoint_name \notin DOMAIN raw_config THEN Raise("ValueError")
    ELSE IF raw_config[endpoint_name] # Unversioned
    THEN LatestOf(raw_config[endpoint_name].version)
    ELSE StrV(<<"1", ".", "0">>)

\* the version a Config method works with, or the exception raised on the way:
\* get_endpoint, get_latest_version when no version is given, the membership test
ResolveVersion(raw_config, name, version) ==
    IF name \notin _endpoints(raw_config) THEN Raise("ValueError")
    ELSE LET v == IF version = None THEN LatestOf(raw_config[name].version) ELSE version
         IN  IF IsRaise(v) THEN v
             ELSE IF v.s \notin DOMAIN raw_config[name].version THEN Raise("ValueError")
             ELSE v

\* `not x` for a schema value of the configuration
Falsy(x) == x = None \/ (x.k = "dict" /\ x.items = <<>>)

get_endpoint_schema(raw_config, name, version) ==
    LET v == ResolveVersion(raw_config, name, version)
    IN  IF IsRaise(v) THEN v
        ELSE IF Falsy(raw_config[name].version[v.s].api_schema) THEN Raise("ValueError")
        ELSE raw_config[name].version[v.s].api_schema

get_output_schema(raw_config, name, version) ==
    LET v == ResolveVersion(raw_config, name, version)
    IN  IF IsRaise(v) THEN v ELSE raw_config[name].version[v.s].output_schema

\* BaseProcessor._fetch_and_parse up to the request: the schema it would parse with,
\* or the exception raised before anything is fetched
FetchSchema(raw_config, name) ==
    IF name \notin _endpoints(raw_config) THEN Raise("ValueError")
    ELSE LET version == LatestOf(raw_config[name].version)
         IN  IF IsRaise(version) THEN version
             ELSE get_endpoint_schema(raw_config, name, version)

\* the loop over dataframes.items() that writes one file per table: the names written
SavedFiles(dataframes) ==
    IF IsRaise(dataframes) THEN dataframes ELSE ListV(DictKeys(dataframes))

\* process_to_parquet: [result, fetched]: the names of the files written (or the
\* exception raised), and whether the request to the API was made
process_to_parquetFetchFirst(raw_config, name, raw_data, yaml_types) ==
    LET output_schema == get_output_schema(raw_config, name, None)
    IN  IF IsRaise(output_schema) THEN [result |-> output_schema, fetched |-> TRUE]
        ELSE IF Falsy(output_schema) \/ ~DictHas(output_schema, Name("tables"))
        THEN [result |-> Raise("ValueError"), fetched |-> TRUE]
        ELSE [result |-> ListV(<<>>), fetched |-> TRUE]
process_to_parquet(raw_config, name, raw_data, yaml_types) ==
    LET output_schema == get_output_schema(raw_config, name, None)
    IN  IF IsRaise(output_schema) THEN [result |-> output_schema, fetched |-> FALSE]
        ELSE IF Falsy(output_schema) \/ ~DictHas(output_schema, Name("tables"))
        THEN [result |-> Raise("ValueError"), fetched |-> FALSE]
        ELSE LET schema == FetchSchema(raw_config, name)
             IN  IF IsRaise(schema) THEN [result |-> schema, fetched |-> FALSE]
                 ELSE [result |-> SavedFiles(
                                      _transform_data(raw_data,
                                              DictGet(output_schema, Name("tables")),
                                              get_endpoint_schema(raw_config, name, None),
                                              yaml_types).out),
                           fetched |-> TRUE]

(***************************************************************************)
(* Inputs of the configuration requests                                    *)
(***************************************************************************)
\* version keys: "1.9", "1.10", "1.1", "2", "2.0"
VersionKeys ==
    { <<"1", ".", "9">>, <<"1", ".", "1", "0">>, <<"1", ".", "1">>, <<"2">>,
      <<"2", ".", "0">> }

EndpointVersion(api_schema, output_schema) ==
    [api_schema |-> api_schema, output_schema |-> output_schema]
OutTables(table_configs) == DictV(<<[key |-> Name("tables"), val |-> table_configs]>>)
\* an output schema that has entries but no 'tables'
OutNoTables == DictV(<<[key |-> Name("description"), val |-> StrV(<<"x">>)]>>)
\* version configurations: complete, without api_schema, with an empty api_schema,
\* without output_schema, with an empty one, with one that lacks 'tables', and with
\* an empty 'tables' mapping
VersionPool ==
    { EndpointVersion(MainSchema, OutTables(<<TCups(Name("LeagueID"))>>)),
      EndpointVersion(None, OutTables(<<TCups(Name("LeagueID"))>>)),
      EndpointVersion(EmptyCfg, OutTables(<<TCups(Name("LeagueID"))>>)),
      EndpointVersion(MainSchema, None),
      EndpointVersion(MainSchema, DictV(<<>>)),
      EndpointVersion(MainSchema, OutNoTables),
      EndpointVersion(MainSchema, OutTables(<<>>)) }

\* the 'version' mappings of an endpoint: up to MaxVersions keys
VersionMaps ==
    UNION { [ks -> VersionPool] :
              ks \in {k \in SUBSET VersionKeys :
                         Cardinality(k) >= 1 /\ Cardinality(k) <= MaxVersions} }

\* the configuration file: endpoint 'leagues' with versions, endpoint 'old' without
RawConfig(version) == ("leagues" :> [version |-> version]) @@ ("old" :> Unversioned)

\* a request to the configuration: the endpoint name and the version asked for
Requests ==
    { [name |-> n, version |-> v] :
        n \in {"leagues", "old", "ghost"},
        v \in {None, StrV(<<"1", ".", "9">>), StrV(<<"3">>)} }

(***************************************************************************)
(* The configuration requests                                              *)
(***************************************************************************)
ConfInit ==
    /\ pc = "request"
    /\ \E version \in VersionMaps, r \in Requests :
          job = [config |-> RawConfig(version), name |-> r.name, version |-> r.version,
                 raw |-> RawData(<<League(IntV(1), ListV(<<CupA>>), Absent, Absent)>>),
                 types |-> YamlTypes]
    /\ out = None
    /\ xml = None /\ fields = None /\ parsed = None

\* Config.get_endpoint_schema(name, version)
GetEndpointSchema ==
    /\ pc = "request"
    /\ out' = get_endpoint_schema(job.config, job.name, job.version)
    /\ pc' = "schema"
    /\ UNCHANGED <<xml, fields, parsed, job>>

\* Config.get_output_schema(name, version)
GetOutputSchema ==
    /\ pc = "request"
    /\ out' = get_output_schema(job.config, job.name, job.version)
    /\ pc' = "output"
    /\ UNCHANGED <<xml, fields, parsed, job>>

\* EndpointConfig.get_latest_version() of a configured endpoint
LatestVersion ==
    /\ pc = "request"
    /\ job.name \in _endpoints(job.config)
    /\ out' = LatestOf(job.config[job.name].version)
    /\ pc' = "latest"
    /\ UNCHANGED <<xml, fields, parsed, job>>

\* api.get_latest_version(endpoint_name)
ApiLatestVersion ==
    /\ pc = "request"
    /\ out' = get_latest_version(job.config, job.name)
    /\ pc' = "apilatest"
    /\ UNCHANGED <<xml, fields, parsed, job>>

\* GenericProcessor(name).process_to_parquet()
ProcessToParquet ==
    /\ pc = "request"
    /\ out' = process_to_parquet(job.config, job.name, job.raw, job.types)
    /\ pc' = "process"
    /\ UNCHANGED <<xml, fields, parsed, job>>

ConfNext ==
    GetEndpointSchema \/ GetOutputSchema \/ LatestVersion \/ ApiLatestVersion
        \/ ProcessToParquet

ConfSpec == ConfInit /\ [][ConfNext]_vars

(***************************************************************************)
(* Claims about the configuration                                          *)
(***************************************************************************)
\* the requested endpoint is one the configuration holds with versions
Configured == job.name \in DOMAIN job.config /\ job.config[job.name] # Unversioned
VersionsOf == job.config[job.name].version
\* the keys whose number no other key exceeds
HighestKeys ==
    {k \in DOMAIN VersionsOf :
        \A o \in DOMAIN VersionsOf : FloatGeq(PyFloat(k), PyFloat(o))}
\* the version keys the request is about: the one asked for, or the highest
AskedKeys ==
    IF job.version = None THEN HighestKeys
    ELSE {k \in DOMAIN VersionsOf : k = job.version.s}
NoTablesIn(output_schema) ==
    Falsy(output_schema) \/ ~DictHas(output_schema, Name("tables"))

C15_LatestIsHighestKey ==
    (pc \in {"latest", "apilatest"} /\ Configured) =>
        /\ ~IsRaise(out)
        /\ out.s \in HighestKeys

\* C27: for a configured endpoint the latest version returned is a key of its version
\* map, and a lookup without explicit version does not fail for the version:
\* get_output_schema does not raise, and get_endpoint_schema does not raise when
\* every version has an api_schema.
C27_LatestIsAKey ==
    /\ (pc \in {"latest", "apilatest"} /\ Configured) =>
          /\ ~IsRaise(out)
          /\ out.s \in DOMAIN VersionsOf
    /\ (pc = "output" /\ Configured /\ job.version = None) => ~IsRaise(out)
    /\ (pc = "schema" /\ Configured /\ job.version = None
            /\ \A k \in DOMAIN VersionsOf : ~Falsy(VersionsOf[k].api_schema))
          => ~IsRaise(out)

(***************************************************************************)
(* client.HTTPClient: the async context and get                            *)
(***************************************************************************)
MaxCalls == 5
Endpoints == {"leagues", "worlddetails"}
StatusCodes == {200, 500}

\* HTTPClient.__init__: _session is None; `sent` is the requests that went out,
\* `inside` tells whether the last context call was __aenter__, `calls` counts the
\* calls made on the client
NewClient == [session |-> "none", sent |-> <<>>, inside |-> FALSE, calls |-> 0,
              last |-> "__init__"]
\* `not self._session`: None is falsy, a ClientSession object is truthy, closed or not
NoSession(session) == session = "none"

ClientInit ==
    /\ pc = "client"
    /\ job = NewClient
    /\ out = None
    /\ xml = None /\ fields = None /\ parsed = None

\* __aenter__: a new ClientSession is stored
AEnter ==
    /\ pc = "client" /\ job.calls < MaxCalls
    /\ job' = [job EXCEPT !.session = "open", !.inside = TRUE,
                          !.calls = job.calls + 1, !.last = "__aenter__"]
    /\ out' = None
    /\ UNCHANGED <<pc, xml, fields, parsed>>

\* __aexit__: the session, if there is one, is closed; _session keeps the object
AExit ==
    /\ pc = "client" /\ job.calls < MaxCalls
    /\ job' = [job EXCEPT !.session = IF NoSession(job.session) THEN "none" ELSE "closed",
                          !.inside = FALSE,
                          !.calls = job.calls + 1, !.last = "__aexit__"]
    /\ out' = None
    /\ UNCHANGED <<pc, xml, fields, parsed>>

\* get(endpoint, params): RuntimeError without a session; else the OAuth1 request is
\* sent, and the response text is returned when the status code is 200
Get ==
    /\ pc = "client" /\ job.calls < MaxCalls
    /\ \E endpoint \in Endpoints, status_code \in StatusCodes :
          IF NoSession(job.session)
          THEN /\ job' = [job EXCEPT !.calls = job.calls + 1, !.last = "get"]
               /\ out' = Raise("RuntimeError")
          ELSE /\ job' = [job EXCEPT !.sent = Append(job.sent, endpoint),
                                     !.calls = job.calls + 1, !.last = "get"]
               /\ out' = IF status_code # 200 THEN Raise("Exception")
                         ELSE StrV(<<"x", "m", "l">>)
    /\ UNCHANGED <<pc, xml, fields, parsed>>

ClientNext == AEnter \/ AExit \/ Get

ClientSpec == ClientInit /\ [][ClientNext]_vars

\* C30: a get made while the client is not inside its async context, before
\* __aenter__ or after __aexit__, raises RuntimeError and sends no request.
C30_GetOnlyInsideContext ==
    [][ (pc = "client" /\ job'.last = "get" /\ job'.calls = job.calls + 1
            /\ ~job.inside) =>
        /\ out' = Raise("RuntimeError")
        /\ job'.sent = job.sent ]_vars

=============================================================================
